---- MODULE Spec2Model ----
(***************************************************************************)
(* A model of the GPay statement parser (src/pdf_parser.py).               *)
(*                                                                         *)
(* Text is a sequence of one-character strings.  The regular expressions   *)
(* of the source are values of a small backtracking matcher (Match) that   *)
(* follows Python's re: leftmost match, greedy quantifiers, alternatives   *)
(* in order.  Amounts are integers counting hundredths of a rupee (the     *)
(* patterns of the source admit at most two decimals).  A datetime is a    *)
(* record of year, month, day and tick; tick is 0 for a parsed calendar    *)
(* date (midnight) and the clock reading for datetime.now().               *)
(***************************************************************************)
EXTENDS Integers, Sequences, FiniteSets, TLC

(***************************************************************************)
(* Characters and str methods                                              *)
(***************************************************************************)
Digits == <<"0","1","2","3","4","5","6","7","8","9">>
UpperSeq == <<"A","B","C","D","E","F","G","H","I","J","K","L","M","N","O","P","Q","R","S","T","U","V","W","X","Y","Z">>
LowerSeq == <<"a","b","c","d","e","f","g","h","i","j","k","l","m","n","o","p","q","r","s","t","u","v","w","x","y","z">>
Range(s) == {s[i] : i \in 1..Len(s)}
Digit == Range(Digits)
Upper == Range(UpperSeq)
Letter == Upper \cup Range(LowerSeq)
\* \w and \s of Python's re (on the characters the inputs use)
WordChar == Letter \cup Digit \cup {"_"}
Space == {" ", "\t", "\n"}
Rupee == "₹"
Currency == {Rupee, "R", "s", "$"}

Max2(a, b) == IF a >= b THEN a ELSE b
Min2(a, b) == IF a <= b THEN a ELSE b

DigitVal(c) == (CHOOSE i \in 1..10 : Digits[i] = c) - 1

\* str.lower(), one character
LowerChar(c) ==
    IF c \in Upper THEN LowerSeq[CHOOSE i \in 1..26 : UpperSeq[i] = c] ELSE c
\* str.upper(), one character
UpperChar(c) ==
    IF c \in Range(LowerSeq) THEN UpperSeq[CHOOSE i \in 1..26 : LowerSeq[i] = c] ELSE c
\* str.lower()
Lower(s) == [i \in 1..Len(s) |-> LowerChar(s[i])]

\* s[i:j] of Python with 1-based i and exclusive 1-based j
Slice(s, i, j) == IF j <= i THEN <<>> ELSE SubSeq(s, i, j - 1)

\* s.startswith(p)
StartsWith(s, p) == Len(p) <= Len(s) /\ SubSeq(s, 1, Len(p)) = p
\* s[i:].startswith(p), i 1-based
MatchesAt(s, p, i) == i + Len(p) - 1 <= Len(s) /\ SubSeq(s, i, i + Len(p) - 1) = p
\* p in s
Contains(s, p) == \E i \in 1..(Len(s) - Len(p) + 1) : MatchesAt(s, p, i)
\* the least element of a non-empty set of integers
Least(S) == CHOOSE i \in S : \A j \in S : i <= j
\* s.find(p), 1-based, 0 when absent
LeastOr0(S) == IF S = {} THEN 0 ELSE Least(S)
Find(s, p) == LeastOr0({i \in 1..(Len(s) - Len(p) + 1) : MatchesAt(s, p, i)})
\* s without the n characters from s[i] on (all of s when i = 0 or n = 0)
RemoveAt(s, i, n) ==
    IF i = 0 \/ n = 0 THEN s ELSE Slice(s, 1, i) \o Slice(s, i + n, Len(s) + 1)
\* s.replace(p, '', 1)
RemoveFirst(s, p) == RemoveAt(s, Find(s, p), Len(p))
\* the characters of s that are not in cs: s.replace(c, '') for each c of cs,
\* re.sub('[cs]', '', s)
RemoveChars(s, cs) == SelectSeq(s, LAMBDA c : c \notin cs)
\* s.strip(cs)
StripChars(s, cs) ==
    LET keep == {i \in 1..Len(s) : s[i] \notin cs}
    IN  IF keep = {} THEN <<>>
        ELSE SubSeq(s, CHOOSE i \in keep : \A j \in keep : i <= j,
                       CHOOSE i \in keep : \A j \in keep : i >= j)
\* s.strip()
Strip(s) == StripChars(s, Space)

\* ' '.join(parts)
RECURSIVE JoinSpace(_)
JoinSpace(parts) ==
    IF Len(parts) = 0 THEN <<>>
    ELSE IF Len(parts) = 1 THEN parts[1]
    ELSE parts[1] \o <<" ">> \o JoinSpace(Tail(parts))

\* text.split('\n')
RECURSIVE SplitLines(_)
\* i: where the first newline of s is, 0 when there is none
SplitAt(s, i) ==
    IF i = 0 THEN <<s>>
    ELSE <<Slice(s, 1, i)>> \o SplitLines(Slice(s, i + 1, Len(s) + 1))
SplitLines(s) == SplitAt(s, Find(s, <<"\n">>))

(***************************************************************************)
(* Regular expressions: a pattern is a sequence of nodes.                  *)
(*   set: lo..hi characters of cs, greedy (hi < 0: no upper limit)         *)
(*   grp: lo..hi repetitions of the pattern sub, greedy                    *)
(*   alt: the first alternative of alts that lets the rest match           *)
(***************************************************************************)
Set(cs, lo, hi) == [k |-> "set", cs |-> cs, lo |-> lo, hi |-> hi]
One(cs) == Set(cs, 1, 1)
Opt(cs) == Set(cs, 0, 1)
Grp(sub, lo, hi) == [k |-> "grp", sub |-> sub, lo |-> lo, hi |-> hi]
Alt(alts) == [k |-> "alt", alts |-> alts]
\* a literal string; ic: under re.IGNORECASE
Lit(s, ic) == [i \in 1..Len(s) |->
                 One(IF ic THEN {LowerChar(s[i]), UpperChar(s[i])} ELSE {s[i]})]

\* how many characters of cs start at s[i], at most hi
Run(cs, s, i, hi) ==
    LET stops == {j \in i..Len(s) : s[j] \notin cs}
        n == IF stops = {} THEN Len(s) + 1 - i ELSE Least(stops) - i
    IN  IF i > Len(s) THEN 0 ELSE Min2(n, hi)

\* re's match of pattern re at s[i:]: the index after the match, 0 when
\* there is none
RECURSIVE Match(_, _, _), SetMatch(_, _, _, _, _), AltMatch(_, _, _, _)
Match(re, s, i) ==
    IF Len(re) = 0 THEN i
    ELSE LET n == Head(re)
             rest == Tail(re)
         IN  CASE n.k = "set" ->
                    SetMatch(n.lo, Run(n.cs, s, i, IF n.hi < 0 THEN Len(s) ELSE n.hi),
                             rest, s, i)
               [] n.k = "grp" ->
                    LET more == IF n.hi = 0 THEN 0
                                ELSE Match(n.sub
                                           \o <<Grp(n.sub, Max2(0, n.lo - 1),
                                                    IF n.hi < 0 THEN n.hi ELSE n.hi - 1)>>
                                           \o rest, s, i)
                    IN  IF more # 0 THEN more
                        ELSE IF n.lo = 0 THEN Match(rest, s, i) ELSE 0
               [] n.k = "alt" -> AltMatch(n.alts, rest, s, i)
\* the longest count in lo..c of the set's characters after which rest matches
SetMatch(lo, c, rest, s, i) ==
    IF c < lo THEN 0
    ELSE LET e == Match(rest, s, i + c)
         IN  IF e # 0 THEN e ELSE SetMatch(lo, c - 1, rest, s, i)
AltMatch(alts, rest, s, i) ==
    IF Len(alts) = 0 THEN 0
    ELSE LET e == Match(Head(alts) \o rest, s, i)
         IN  IF e # 0 THEN e ELSE AltMatch(Tail(alts), rest, s, i)

\* re.search(re, s[from:]): <<start, end>> of the leftmost match (end is the
\* index after it), <<>> when there is none
Leftmost(ms) ==
    IF ms = {} THEN <<>> ELSE CHOOSE m \in ms : \A o \in ms : m[1] <= o[1]
SearchFrom(re, s, from) ==
    Leftmost({m \in {<<p, Match(re, s, p)>> : p \in from..(Len(s) + 1)} : m[2] # 0})
Search(re, s) == SearchFrom(re, s, 1)
Found(m) == Len(m) = 2
\* match.group(0)
Group0(s, m) == Slice(s, m[1], m[2])

\* re.finditer(re, s): the non-overlapping matches, left to right
RECURSIVE FindIterFrom(_, _, _)
\* m: the leftmost match from where the last one ended
FindIterNext(re, s, m) ==
    IF ~Found(m) THEN <<>>
    ELSE <<m>> \o FindIterFrom(re, s, IF m[2] > m[1] THEN m[2] ELSE m[2] + 1)
FindIterFrom(re, s, from) == FindIterNext(re, s, SearchFrom(re, s, from))
FindIter(re, s) == FindIterFrom(re, s, 1)

\* re.sub(re, '', s)
RECURSIVE SubFrom(_, _, _)
\* m: the leftmost match from s[from] on
SubNext(re, s, from, m) ==
    IF ~Found(m) THEN Slice(s, from, Len(s) + 1)
    ELSE Slice(s, from, m[1]) \o SubFrom(re, s, m[2])
SubFrom(re, s, from) == SubNext(re, s, from, SearchFrom(re, s, from))
SubEmpty(re, s) == SubFrom(re, s, 1)

(***************************************************************************)
(* datetime                                                                *)
(***************************************************************************)
MinYear == 2020
MaxYear == 2030

DateTime(y, m, d, t) == [year |-> y, month |-> m, day |-> d, tick |-> t]
IsLeap(y) == (y % 4 = 0 /\ y % 100 # 0) \/ y % 400 = 0
DaysInMonth(y, m) ==
    IF m = 2 THEN (IF IsLeap(y) THEN 29 ELSE 28)
    ELSE IF m \in {4, 6, 9, 11} THEN 30 ELSE 31
\* datetime(y, m, d) does not raise ValueError
ValidDate(y, m, d) ==
    /\ y >= 1 /\ y <= 9999
    /\ m >= 1 /\ m <= 12
    /\ d >= 1 /\ d <= DaysInMonth(y, m)
\* a < b on datetimes
DateLess(a, b) ==
    \/ a.year < b.year
    \/ a.year = b.year /\ a.month < b.month
    \/ a.year = b.year /\ a.month = b.month /\ a.day < b.day
    \/ a.year = b.year /\ a.month = b.month /\ a.day = b.day /\ a.tick < b.tick

\* int(s) of a string of digits.  TLC's integers have 32 bits: a number of
\* more than nine digits is read as 999999999 (no date field and no amount
\* within bounds is that large)
RECURSIVE IntDigits(_)
IntDigits(s) ==
    IF Len(s) = 0 THEN 0
    ELSE 10 * IntDigits(SubSeq(s, 1, Len(s) - 1)) + DigitVal(s[Len(s)])
IntOf(s) ==
    IF Len(s) - Run({"0"}, s, 1, Len(s)) > 9 THEN 999999999 ELSE IntDigits(s)
AllDigits(s, i, n) == i + n - 1 <= Len(s) /\ \A j \in i..(i + n - 1) : s[j] \in Digit

MonthAbbr == << <<"j","a","n">>, <<"f","e","b">>, <<"m","a","r">>, <<"a","p","r">>, <<"m","a","y">>, <<"j","u","n">>,
               <<"j","u","l">>, <<"a","u","g">>, <<"s","e","p">>, <<"o","c","t">>, <<"n","o","v">>, <<"d","e","c">> >>
MonthFull == << <<"j","a","n","u","a","r","y">>, <<"f","e","b","r","u","a","r","y">>, <<"m","a","r","c","h">>, <<"a","p","r","i","l">>, <<"m","a","y">>, <<"j","u","n","e">>,
               <<"j","u","l","y">>, <<"a","u","g","u","s","t">>, <<"s","e","p","t","e","m","b","e","r">>, <<"o","c","t","o","b","e","r">>, <<"n","o","v","e","m","b","e","r">>,
               <<"d","e","c","e","m","b","e","r">> >>
\* the month whose name (of the table names) starts at s[i], 0 when none does
MonthAt(names, s, i) == LeastOr0({m \in 1..12 : MatchesAt(Lower(s), names[m], i)})

(***************************************************************************)
(* datetime.strptime(s, f): the format's regular expression is matched at  *)
(* the start of s (directive alternatives in the order of _strptime.py,    *)
(* whitespace of the format as \s+, the rest literally, ignoring case),    *)
(* the match must end where s ends, and the fields must be a date.         *)
(***************************************************************************)
NoParse == [ok |-> FALSE, end |-> 0, y |-> 0, m |-> 0, d |-> 0]
\* datetime(y, m, d): <<the datetime>>, or <<>> for ValueError
MakeDate(y, m, d) == IF ValidDate(y, m, d) THEN <<DateTime(y, m, d, 0)>> ELSE <<>>
\* the number two digits (one digit) at s[i] make, 0 when they are not digits
TwoDigits(s, i) == IF AllDigits(s, i, 2) THEN IntOf(SubSeq(s, i, i + 1)) ELSE 0
OneDigit(s, i) == IF AllDigits(s, i, 1) THEN DigitVal(s[i]) ELSE 0

RECURSIVE Strp(_, _, _, _)
\* %b and %B: m is the month whose name starts at s[i], 0 when none does
StrpMonth(names, rest, s, i, acc, m) ==
    IF m # 0 THEN Strp(rest, s, i + Len(names[m]), [acc EXCEPT !.m = m])
    ELSE NoParse
\* the directive %c at s[i], rest being the format after it; two and one
\* are TwoDigits(s, i) and OneDigit(s, i)
StrpDirective(c, rest, s, i, acc, two, one) ==
    CASE c = "d" ->
           \* 3[0-1]|[1-2]\d|0[1-9]|[1-9]| [1-9]
           LET a == IF two >= 1 /\ two <= 31
                    THEN Strp(rest, s, i + 2, [acc EXCEPT !.d = two])
                    ELSE NoParse
               b == IF one >= 1
                    THEN Strp(rest, s, i + 1, [acc EXCEPT !.d = one])
                    ELSE NoParse
               c3 == IF i + 1 <= Len(s) /\ s[i] = " " /\ s[i + 1] \in Digit
                        /\ s[i + 1] # "0"
                     THEN Strp(rest, s, i + 2, [acc EXCEPT !.d = DigitVal(s[i + 1])])
                     ELSE NoParse
           IN  IF a.ok THEN a ELSE IF b.ok THEN b ELSE c3
      [] c = "m" ->
           \* 1[0-2]|0[1-9]|[1-9]
           LET a == IF two >= 1 /\ two <= 12
                    THEN Strp(rest, s, i + 2, [acc EXCEPT !.m = two])
                    ELSE NoParse
               b == IF one >= 1
                    THEN Strp(rest, s, i + 1, [acc EXCEPT !.m = one])
                    ELSE NoParse
           IN  IF a.ok THEN a ELSE b
      [] c = "Y" ->
           IF AllDigits(s, i, 4)
           THEN Strp(rest, s, i + 4, [acc EXCEPT !.y = IntOf(SubSeq(s, i, i + 3))])
           ELSE NoParse
      [] c = "y" ->
           \* 00..68 are 2000..2068, 69..99 are 1969..1999
           IF AllDigits(s, i, 2)
           THEN Strp(rest, s, i + 2,
                     [acc EXCEPT !.y = IF two <= 68 THEN 2000 + two ELSE 1900 + two])
           ELSE NoParse
      [] c = "b" -> StrpMonth(MonthAbbr, rest, s, i, acc, MonthAt(MonthAbbr, s, i))
      [] c = "B" -> StrpMonth(MonthFull, rest, s, i, acc, MonthAt(MonthFull, s, i))
      [] OTHER -> NoParse
\* \s+ : the longest run of 1..c spaces after which the rest matches
RECURSIVE StrpSpace(_, _, _, _, _)
StrpSpace(f, s, i, acc, c) ==
    IF c < 1 THEN NoParse
    ELSE LET r == Strp(f, s, i + c, acc)
         IN  IF r.ok THEN r ELSE StrpSpace(f, s, i, acc, c - 1)
\* the format f from s[i] on, acc holding the fields read so far
Strp(f, s, i, acc) ==
    IF Len(f) = 0 THEN [acc EXCEPT !.ok = TRUE, !.end = i]
    ELSE IF f[1] = "%" THEN
        StrpDirective(f[2], SubSeq(f, 3, Len(f)), s, i, acc, TwoDigits(s, i),
                      OneDigit(s, i))
    ELSE IF f[1] \in Space THEN
        StrpSpace(Tail(f), s, i, acc, Run(Space, s, i, Len(s)))
    ELSE IF i <= Len(s) /\ LowerChar(s[i]) = LowerChar(f[1])
         THEN Strp(Tail(f), s, i + 1, acc)
         ELSE NoParse

\* r: what Strp read of a string of length n
StrpResult(r, n) ==
    IF r.ok /\ r.end = n + 1 THEN MakeDate(r.y, r.m, r.d) ELSE <<>>
\* datetime.strptime(s, f): <<the datetime>>, or <<>> for ValueError
strptime(s, f) ==
    StrpResult(Strp(f, s, 1, [NoParse EXCEPT !.y = 1900, !.m = 1, !.d = 1]), Len(s))

\* the formats list with the US formats before the Indian ones
formats_us_first == <<
    <<"%","d"," ","%","b",","," ","%","Y">>, <<"%","d","%","b"," ","%","Y">>, <<"%","d"," ","%","b"," ","%","Y">>,
    <<"%","m","/","%","d","/","%","Y">>, <<"%","m","-","%","d","-","%","Y">>,
    <<"%","d","-","%","m","-","%","Y">>, <<"%","d","/","%","m","/","%","Y">>, <<"%","d",".","%","m",".","%","Y">>,
    <<"%","d","-","%","m","-","%","y">>, <<"%","d","/","%","m","/","%","y">>, <<"%","d",".","%","m",".","%","y">>,
    <<"%","Y","-","%","m","-","%","d">>, <<"%","Y","/","%","m","/","%","d">>,
    <<"%","d"," ","%","B"," ","%","Y">>, <<"%","d","-","%","b","-","%","Y">>, <<"%","d","-","%","B","-","%","Y">>,
    <<"%","b"," ","%","d",","," ","%","Y">>, <<"%","B"," ","%","d",","," ","%","Y">> >>
\* the formats list of _parse_date, in its order
formats == <<
    <<"%","d"," ","%","b",","," ","%","Y">>, <<"%","d","%","b"," ","%","Y">>, <<"%","d"," ","%","b"," ","%","Y">>,
    <<"%","d","-","%","m","-","%","Y">>, <<"%","d","/","%","m","/","%","Y">>, <<"%","d",".","%","m",".","%","Y">>,
    <<"%","d","-","%","m","-","%","y">>, <<"%","d","/","%","m","/","%","y">>, <<"%","d",".","%","m",".","%","y">>,
    <<"%","Y","-","%","m","-","%","d">>, <<"%","Y","/","%","m","/","%","d">>,
    <<"%","d"," ","%","B"," ","%","Y">>, <<"%","d","-","%","b","-","%","Y">>, <<"%","d","-","%","B","-","%","Y">>,
    <<"%","b"," ","%","d",","," ","%","Y">>, <<"%","B"," ","%","d",","," ","%","Y">>,
    <<"%","m","/","%","d","/","%","Y">>, <<"%","m","-","%","d","-","%","Y">> >>

\* the loop over formats: the first format that parses
RECURSIVE TryFormats(_, _)
\* r: what strptime gave for format k
TryNext(s, k, r) == IF Len(r) = 1 THEN r ELSE TryFormats(s, k + 1)
TryFormats(s, k) ==
    IF k > Len(formats) THEN <<>> ELSE TryNext(s, k, strptime(s, formats[k]))

\* (\d{1,2})([A-Za-z]{3}),(\d{4})
gpay_pattern == <<Set(Digit, 1, 2), Set(Letter, 3, 3), One({","}), Set(Digit, 4, 4)>>

\* the groups of the GPay token s, whose day has n digits: a month that is
\* not in month_map gives no date
GpayGroups(s, n) ==
    MakeDate(IntOf(SubSeq(s, n + 5, n + 8)), MonthAt(MonthAbbr, s, n + 1),
             IntOf(SubSeq(s, 1, n)))
\* the GPay branch: <<the datetime>>, or <<>> when the token does not match,
\* the month is unknown or datetime() raises
GpayDate(s) ==
    IF Match(gpay_pattern, s, 1) = 0 THEN <<>> ELSE GpayGroups(s, Run(Digit, s, 1, 2))

\* re.findall(r'\d+', s) as integers
RECURSIVE Numbers(_, _)
Numbers(s, i) ==
    IF i > Len(s) THEN <<>>
    ELSE IF s[i] \notin Digit THEN Numbers(s, i + 1)
    ELSE LET n == Run(Digit, s, i, Len(s))
         IN  <<IntOf(SubSeq(s, i, i + n - 1))>> \o Numbers(s, i + n)

\* the flexible branch on the first three numbers: day-month-year, else
\* month-day-year
FlexibleOrder(num1, num2, year) ==
    IF num1 >= 1 /\ num1 <= 31 /\ num2 >= 1 /\ num2 <= 12
    THEN MakeDate(year, num2, num1)
    ELSE IF num1 >= 1 /\ num1 <= 12 /\ num2 >= 1 /\ num2 <= 31
    THEN MakeDate(year, num1, num2)
    ELSE <<>>
FlexibleNumbers(numbers) ==
    IF Len(numbers) < 3 THEN <<>>
    ELSE FlexibleOrder(numbers[1], numbers[2],
                       IF numbers[3] < 100 THEN numbers[3] + 2000 ELSE numbers[3])
FlexibleDate(s) == FlexibleNumbers(Numbers(s, 1))

\* the three branches on the stripped string s: the first that gives a date,
\* else datetime.now()
FirstDate(s, now) ==
    Head(GpayDate(s) \o TryFormats(s, 1) \o FlexibleDate(s) \o <<now>>)
\* _parse_date(date_str) called when datetime.now() reads now
_parse_date(date_str, now) == FirstDate(Strip(date_str), now)

(***************************************************************************)
(* Amounts                                                                 *)
(***************************************************************************)
\* the bounds of a reasonable amount, 0.01 and 10000000, in hundredths
MinAmount == 1
MaxAmount == 1000000000

Abs(v) == IF v < 0 THEN 0 - v ELSE v

\* float(s) in hundredths for s of the shape digits or digits.d or
\* digits.dd; -1 for any other s (ValueError, or more decimals than the
\* patterns of the source let through).  A value above the upper bound is
\* read as MaxAmount + 1: it is compared with the bounds and never stored.
Cents(whole, frac) ==
    IF whole > MaxAmount \div 100 THEN MaxAmount + 1 ELSE 100 * whole + frac
\* n: how many digits s starts with, k: how many characters follow the point
FloatParts(s, n, k) ==
    IF n = 0 THEN -1
    ELSE IF n = Len(s) THEN Cents(IntOf(s), 0)
    ELSE IF s[n + 1] = "." /\ k \in {1, 2} /\ AllDigits(s, n + 2, k)
    THEN Cents(IntOf(SubSeq(s, 1, n)),
               (IF k = 1 THEN 10 ELSE 1) * IntOf(SubSeq(s, n + 2, Len(s))))
    ELSE -1
FloatDigits(s, n) == FloatParts(s, n, Len(s) - n - 1)
FloatCents(s) == FloatDigits(s, Run(Digit, s, 1, Len(s)))

\* (?:[,]\d{2,3})*  and  (?:[.]\d{1,2})?
CommaGroups == Grp(<<One({","}), Set(Digit, 2, 3)>>, 0, -1)
Decimals == Grp(<<One({"."}), Set(Digit, 1, 2)>>, 0, 1)

(***************************************************************************)
(* _parse_table_row                                                        *)
(***************************************************************************)
date_patterns == <<
    <<Set(Digit, 1, 2), One({"-", "/"}), Set(Digit, 1, 2), One({"-", "/"}),
      Set(Digit, 2, 4)>>,
    <<Set(Digit, 1, 2), Set(Space, 1, -1), Set(WordChar, 3, 3), Set(Space, 1, -1),
      Set(Digit, 4, 4)>>,
    <<Set(Digit, 1, 2), Set(Space, 1, -1), Set(WordChar, 1, -1), Set(Space, 1, -1),
      Set(Digit, 4, 4)>>,
    <<Set(Digit, 4, 4), One({"-", "/"}), Set(Digit, 1, 2), One({"-", "/"}),
      Set(Digit, 1, 2)>> >>

amount_patterns == <<
    <<Opt(Currency), Set(Space, 0, -1), Opt({"-"}), Set(Digit, 1, 3), CommaGroups,
      Decimals>>,
    <<One(Currency), Set(Space, 0, -1), Set(Digit, 1, 3), CommaGroups, Decimals>>,
    <<Opt({"("}), Set(Digit, 1, 3), CommaGroups, Decimals, Opt({")"})>>,
    <<Opt({"-"}), Set(Digit, 1, 3), CommaGroups, Decimals>>,
    <<Opt(Currency), Set(Space, 0, -1), Opt({"-"}), Set(Digit, 1, -1),
      One({".", ","}), Set(Digit, 2, 2)>>,
    <<Opt(Currency), Set(Space, 0, -1), Opt({"-"}), Set(Digit, 1, -1)>> >>

row_debit_keywords == << <<"p","a","i","d">>, <<"s","e","n","t">>, <<"d","e","b","i","t">>, <<"w","i","t","h","d","r","a","w","a","l">>, <<"d","e","d","u","c","t","e","d">>, <<"s","p","e","n","t">> >>
row_credit_keywords == << <<"r","e","c","e","i","v","e","d">>, <<"c","r","e","d","i","t">>, <<"d","e","p","o","s","i","t">>, <<"c","r","e","d","i","t","e","d">>, <<"a","d","d","e","d">>, <<"r","e","f","u","n","d">> >>
row_headers == << <<"d","a","t","e">>, <<"d","e","s","c","r","i","p","t","i","o","n">>, <<"a","m","o","u","n","t">>, <<"t","r","a","n","s","a","c","t","i","o","n">>, <<"b","a","l","a","n","c","e">>, <<"t","o","t","a","l">> >>

\* any(k in s for k in keywords)
AnyIn(keywords, s) == \E i \in 1..Len(keywords) : Contains(s, keywords[i])

\* a parsed date taken without the year check
InYearRangeUnchecked(parsed_date) == <<parsed_date>>
\* the year check on a parsed date: <<the date>> when it passes
InYearRange(parsed_date) ==
    IF parsed_date.year >= MinYear /\ parsed_date.year <= MaxYear
    THEN <<parsed_date>> ELSE <<>>
\* one pattern on one cell: <<the date>> when the pattern matches and the
\* match parses to a year in range
PatternDate(cell_str, now, date_match) ==
    IF Found(date_match)
    THEN InYearRange(_parse_date(Group0(cell_str, date_match), now))
    ELSE <<>>
\* the loop over date_patterns for one cell: the first pattern that gives a
\* date ends it
RECURSIVE CellDate(_, _, _)
DateOrNext(cell_str, now, k, found) ==
    IF Len(found) = 1 THEN found ELSE CellDate(cell_str, now, k + 1)
CellDate(cell_str, now, k) ==
    IF k > Len(date_patterns) THEN <<>>
    ELSE DateOrNext(cell_str, now, k,
                    PatternDate(cell_str, now, Search(date_patterns[k], cell_str)))

\* the loop over amount_patterns for one cell; is_negative is kept from one
\* pattern to the next
RECURSIVE CellAmount(_, _, _)
\* value: float(amount_str), negative: is_negative after the sign checks
AmountOrNext(cell_str, k, negative, amount_str, value) ==
    LET amount_value == IF negative THEN 0 - value ELSE value
    IN  IF Len(amount_str) > 0 /\ value >= 0
           /\ MinAmount <= Abs(amount_value) /\ Abs(amount_value) <= MaxAmount
        THEN <<amount_value>>
        ELSE CellAmount(cell_str, negative, k + 1)
\* CleanedAmount with is_negative set whatever the cell holds
CleanedAmountAlwaysNegative(cell_str, is_negative, k, cleaned) ==
    LET minus == StartsWith(cleaned, <<"-">>) \/ StartsWith(Strip(cell_str), <<"(">>)
        amount_str == IF minus THEN RemoveChars(cleaned, {"-"}) ELSE cleaned
    IN  AmountOrNext(cell_str, k, TRUE, amount_str, FloatCents(amount_str))
\* cleaned: the match without currency signs, commas, spaces and brackets
CleanedAmount(cell_str, is_negative, k, cleaned) ==
    LET minus == StartsWith(cleaned, <<"-">>) \/ StartsWith(Strip(cell_str), <<"(">>)
        amount_str == IF minus THEN RemoveChars(cleaned, {"-"}) ELSE cleaned
    IN  AmountOrNext(cell_str, k, is_negative \/ minus, amount_str,
                     FloatCents(amount_str))
MatchedAmount(cell_str, is_negative, k, test_str, amount_match) ==
    IF ~Found(amount_match) THEN CellAmount(cell_str, is_negative, k + 1)
    ELSE CleanedAmount(cell_str, is_negative, k,
             Strip(RemoveChars(Group0(test_str, amount_match),
                               Currency \cup Space \cup {",", "(", ")"})))
CellAmount(cell_str, is_negative, k) ==
    IF k > Len(amount_patterns) THEN <<>>
    ELSE MatchedAmount(cell_str, is_negative, k, RemoveChars(cell_str, {","}),
             Search(amount_patterns[k], RemoveChars(cell_str, {","})))

\* the type keywords of one cell: the debit list is tried first
CellType(cell_lower) ==
    IF AnyIn(row_debit_keywords, cell_lower) THEN <<"Debit">>
    ELSE IF AnyIn(row_credit_keywords, cell_lower) THEN <<"Credit">>
    ELSE <<>>

\* the first loop over the cells: each field is set by the first cell that
\* gives it a value
RECURSIVE RowFields(_, _, _, _)
RowFields(row_data, now, i, tx) ==
    IF i > Len(row_data) THEN tx
    ELSE LET cell_str == Strip(row_data[i])
             is_negative == \/ StartsWith(cell_str, <<"-">>)
                            \/ StartsWith(cell_str, <<"(">>)
                            \/ Contains(Lower(cell_str), <<"d","e","b","i","t">>)
         IN  RowFields(row_data, now, i + 1,
                [date |-> IF Len(tx.date) = 0 THEN CellDate(cell_str, now, 1)
                          ELSE tx.date,
                 amount |-> IF Len(tx.amount) = 0 THEN CellAmount(cell_str, is_negative, 1)
                            ELSE tx.amount,
                 type |-> IF Len(tx.type) = 0 THEN CellType(Lower(cell_str))
                          ELSE tx.type])

\* the cells that make the description
IsDescription(cell) ==
    LET cell_str == Strip(cell)
        is_date == \E k \in 1..Len(date_patterns) :
                       Found(Search(date_patterns[k], cell_str))
        is_amount == \E k \in 1..Len(amount_patterns) :
                       Found(Search(amount_patterns[k], RemoveChars(cell_str, {","})))
        is_type == \/ AnyIn(row_debit_keywords, Lower(cell_str))
                   \/ AnyIn(row_credit_keywords, Lower(cell_str))
        is_header == AnyIn(row_headers, Lower(cell_str))
    IN  ~is_date /\ ~is_amount /\ ~is_type /\ ~is_header /\ Len(cell_str) > 3

StripAll(cells) == [i \in 1..Len(cells) |-> Strip(cells[i])]
RowDescriptions(row_data) == StripAll(SelectSeq(row_data, IsDescription))

\* RowTransaction with Debit as the default type whatever the amount's sign
RowTransactionDefaultDebit(tx, descriptions) ==
    IF Len(tx.date) = 0 \/ Len(tx.amount) = 0 THEN <<>>
    ELSE <<[date |-> tx.date[1],
            amount |-> tx.amount[1],
            type |-> IF Len(tx.type) = 1 THEN tx.type[1] ELSE "Debit",
            description |-> IF Len(descriptions) = 0 THEN <<"U","n","k","n","o","w","n"," ","T","r","a","n","s","a","c","t","i","o","n">>
                            ELSE JoinSpace(descriptions)]>>
\* lines 267-281: the transaction of the fields tx and the description cells
RowTransaction(tx, descriptions) ==
    IF Len(tx.date) = 0 \/ Len(tx.amount) = 0 THEN <<>>
    ELSE <<[date |-> tx.date[1],
            amount |-> tx.amount[1],
            type |-> IF Len(tx.type) = 1 THEN tx.type[1]
                     ELSE IF tx.amount[1] < 0 THEN "Debit" ELSE "Credit",
            description |-> IF Len(descriptions) = 0 THEN <<"U","n","k","n","o","w","n"," ","T","r","a","n","s","a","c","t","i","o","n">>
                            ELSE JoinSpace(descriptions)]>>
\* row_data: the cells that are not empty
NonEmptyRow(row_data, now) ==
    IF Len(row_data) < 2 THEN <<>>
    ELSE RowTransaction(RowFields(row_data, now, 1,
                                  [date |-> <<>>, amount |-> <<>>, type |-> <<>>]),
                        RowDescriptions(row_data))
\* _parse_table_row(row_data): <<the transaction>>, or <<>> for None
_parse_table_row(row, now) ==
    IF Len(row) < 2 THEN <<>>
    ELSE NonEmptyRow(SelectSeq(row, LAMBDA cell : Len(Strip(cell)) > 0), now)

(***************************************************************************)
(* _parse_text_transactions and _parse_single_transaction                  *)
(***************************************************************************)
\* (\d{1,2}[A-Za-z]{3},\d{4})
date_pattern == <<Set(Digit, 1, 2), Set(Letter, 3, 3), One({","}), Set(Digit, 4, 4)>>
\* ₹\s*(\d{1,3}(?:[,]\d{2,3})*(?:[.]\d{1,2})?)
amount_pattern == <<One({Rupee}), Set(Space, 0, -1), Set(Digit, 1, 3), CommaGroups,
                    Decimals>>
debit_keywords == << <<"p","a","i","d","t","o">>, <<"s","e","l","f","t","r","a","n","s","f","e","r","t","o">>, <<"p","a","i","d">> >>
credit_keywords == << <<"r","e","c","e","i","v","e","d","f","r","o","m">>, <<"r","e","c","e","i","v","e","d">>, <<"c","r","e","d","i","t","e","d">> >>
skip_headers == << <<"d","a","t","e","&","t","i","m","e">>, <<"t","r","a","n","s","a","c","t","i","o","n","d","e","t","a","i","l","s">>, <<"a","m","o","u","n","t">>,
                  <<"t","r","a","n","s","a","c","t","i","o","n"," ","s","t","a","t","e","m","e","n","t">>, <<"s","t","a","t","e","m","e","n","t","p","e","r","i","o","d">>, <<"s","e","n","t"," ","r","e","c","e","i","v","e","d">>,
                  <<"c","o","n","t","a","c","t">>, <<"8","0","8","1","1","0","0","1","0","5">> >>

\* \d{1,2}:\d{2}\s*(AM|PM), ignoring case
time_pattern == <<Set(Digit, 1, 2), One({":"}), Set(Digit, 2, 2), Set(Space, 0, -1),
                  Alt(<<Lit(<<"A","M">>, TRUE), Lit(<<"P","M">>, TRUE)>>)>>
\* UPITransactionID:\s*\d+, ignoring case
upi_pattern == Lit(<<"U","P","I","T","r","a","n","s","a","c","t","i","o","n","I","D",":">>, TRUE) \o <<Set(Space, 0, -1), Set(Digit, 1, -1)>>
\* Paidby[A-Za-z]+\d+, ignoring case
bank_pattern == Lit(<<"P","a","i","d","b","y">>, TRUE) \o <<Set(Letter, 1, -1), Set(Digit, 1, -1)>>

\* re.sub(r'\s+', ' ', s): a run of spaces leaves one " "
CollapseSpaces(s) ==
    LET keep == {i \in 1..Len(s) : s[i] \notin Space \/ i = 1 \/ s[i - 1] \notin Space}
        at(k) == CHOOSE i \in keep : Cardinality({j \in keep : j <= i}) = k
    IN  [k \in 1..Cardinality(keep) |-> IF s[at(k)] \in Space THEN " " ELSE s[at(k)]]

\* lines 421-437: the cleaned description desc, else the text between the
\* date and the amount, else 'Transaction'
ChosenDescription(desc, between, date_match, amount_match) ==
    IF Len(desc) > 1 THEN desc
    ELSE IF amount_match[1] > date_match[2] /\ Len(between) > 1 THEN between
    ELSE <<"T","r","a","n","s","a","c","t","i","o","n">>
\* the description of a fragment, given its date and amount matches
FragmentDescription(transaction_text, date_match, amount_match) ==
    LET d1 == Strip(RemoveFirst(transaction_text, Group0(transaction_text, date_match)))
        d2 == Strip(RemoveFirst(d1, Group0(transaction_text, amount_match)))
        d3 == Strip(SubEmpty(time_pattern, d2))
        d4 == Strip(SubEmpty(upi_pattern, d3))
        d5 == Strip(SubEmpty(bank_pattern, d4))
        d6 == Strip(CollapseSpaces(d5))
    IN  ChosenDescription(
            StripChars(d6, {" ", ",", "-"}),
            Strip(CollapseSpaces(
                Strip(Slice(transaction_text, date_match[2], amount_match[1])))),
            date_match, amount_match)

\* float() of group(1) of the amount match: the match without the rupee sign
\* and the spaces after it, commas removed
FragmentAmount(transaction_text, amount_match) ==
    FloatCents(RemoveChars(
        Slice(transaction_text,
              amount_match[1] + 1 + Run(Space, transaction_text, amount_match[1] + 1,
                                        Len(transaction_text)),
              amount_match[2]),
        {","}))
\* lines 386-448, given the year-checked date and the amount
FragmentRecord(transaction_text, date_match, amount_match, parsed_date, amount_value) ==
    IF Len(parsed_date) = 0 THEN <<>>
    ELSE IF amount_value < 0 THEN <<>>
    ELSE IF ~(MinAmount <= Abs(amount_value) /\ Abs(amount_value) <= MaxAmount)
    THEN <<>>
    ELSE <<[date |-> parsed_date[1],
            amount |-> amount_value,
            type |-> IF AnyIn(debit_keywords, Lower(transaction_text)) THEN "Debit"
                     ELSE IF AnyIn(credit_keywords, Lower(transaction_text))
                     THEN "Credit"
                     ELSE "Debit",
            description |-> FragmentDescription(transaction_text, date_match,
                                                amount_match)]>>
\* lines 365-384: both matches are needed
FragmentMatches(transaction_text, now, date_match, amount_match) ==
    IF ~Found(date_match) \/ ~Found(amount_match) THEN <<>>
    ELSE FragmentRecord(transaction_text, date_match, amount_match,
             InYearRange(_parse_date(Strip(Group0(transaction_text, date_match)),
                                     now)),
             FragmentAmount(transaction_text, amount_match))
\* _parse_single_transaction(transaction_text, ...): <<the transaction>>, or
\* <<>> for None
_parse_single_transaction(transaction_text, now) ==
    FragmentMatches(transaction_text, now, Search(date_pattern, transaction_text),
                    Search(amount_pattern, transaction_text))

\* the minimum lengths of a line and of a fragment
MinLineLen == 15
MinFragmentLen == 10

\* DateFragments with every fragment running to the end of the line
DateFragmentsToLineEnd(line, date_matches) ==
    [i \in 1..Len(date_matches) |->
        Strip(Slice(line, date_matches[i][1], Len(line) + 1))]
\* lines 334-352: the text from each date match to the next one, stripped
DateFragments(line, date_matches) ==
    [i \in 1..Len(date_matches) |->
        Strip(Slice(line, date_matches[i][1],
                    IF i + 1 <= Len(date_matches)
                    THEN date_matches[i + 1][1] ELSE Len(line) + 1))]
\* the fragments of one line that are long enough to be parsed
LineFragments(line) ==
    IF Len(Strip(line)) < MinLineLen THEN <<>>
    ELSE IF AnyIn(skip_headers, Lower(line)) THEN <<>>
    ELSE SelectSeq(DateFragments(line, FindIter(date_pattern, line)),
                   LAMBDA t : Len(t) >= MinFragmentLen)

\* the fragments of a page's text, line after line
RECURSIVE FragmentsOf(_)
FragmentsOf(lines) ==
    IF Len(lines) = 0 THEN <<>>
    ELSE LineFragments(Head(lines)) \o FragmentsOf(Tail(lines))
TextFragments(text) == FragmentsOf(SplitLines(text))

\* the transactions of a sequence of fragments, all parsed at the clock
\* reading now
RECURSIVE ParseFragments(_, _)
ParseFragments(frags, now) ==
    IF Len(frags) = 0 THEN <<>>
    ELSE _parse_single_transaction(Head(frags), now) \o ParseFragments(Tail(frags), now)

\* _parse_text_transactions(text)
_parse_text_transactions(text, now) == ParseFragments(TextFragments(text), now)

(***************************************************************************)
(* _clean_dataframe                                                        *)
(***************************************************************************)
\* df.drop_duplicates(): a row equal in every column to an earlier row goes
drop_duplicates(df) ==
    LET keep(i) == \A j \in 1..(i - 1) : df[j] # df[i]
        idx == {i \in 1..Len(df) : keep(i)}
        at(k) == CHOOSE i \in idx : Cardinality({j \in idx : j <= i}) = k
    IN  [k \in 1..Cardinality(idx) |-> df[at(k)]]

\* sort_values with ascending=True
sort_values_ascending(df) ==
    LET before(i, j) == \/ DateLess(df[i].date, df[j].date)
                        \/ df[i].date = df[j].date /\ i < j
        rank(i) == 1 + Cardinality({j \in 1..Len(df) : before(j, i)})
    IN  [k \in 1..Len(df) |-> df[CHOOSE i \in 1..Len(df) : rank(i) = k]]
\* df.sort_values('date', ascending=False): rows of equal date keep their
\* order
sort_values(df) ==
    LET before(i, j) == \/ DateLess(df[j].date, df[i].date)
                        \/ df[i].date = df[j].date /\ i < j
        rank(i) == 1 + Cardinality({j \in 1..Len(df) : before(j, i)})
    IN  [k \in 1..Len(df) |-> df[CHOOSE i \in 1..Len(df) : rank(i) = k]]

\* _clean_dataframe(df): every row has the four columns, so no column is
\* defaulted
_clean_dataframe(df) ==
    IF Len(df) = 0 THEN df ELSE sort_values(drop_duplicates(df))

(***************************************************************************)
(* parse_gpay_pdf: the page loop                                           *)
(***************************************************************************)
table_headers == << <<"d","a","t","e">>, <<"d","e","s","c","r","i","p","t","i","o","n">>, <<"a","m","o","u","n","t">>, <<"t","r","a","n","s","a","c","t","i","o","n">>, <<"d","e","b","i","t">>,
                   <<"c","r","e","d","i","t">>, <<"b","a","l","a","n","c","e">> >>
\* the description prefix the duplicate check compares
PrefixLen == 20
\* the rows with index below this are header candidates
HeaderRows == 3

\* the rows of a page's tables in the order of the two loops, each with its
\* index in its table
RECURSIVE PageRows(_)
PageRows(tables) ==
    IF Len(tables) = 0 THEN <<>>
    ELSE [i \in 1..Len(Head(tables)) |-> [row |-> Head(tables)[i], row_idx |-> i - 1]]
         \o PageRows(Tail(tables))

\* lines 66-77 without the check of line 76: a row that gives no transaction
\* is appended as a transaction without values
NoneOr(r, now) ==
    IF Len(r) = 1 THEN r
    ELSE <<[date |-> now, amount |-> 0, type |-> "Debit", description |-> <<>>]>>
StrippedRowWithoutCheck(row_data, row_idx, now) ==
    IF ~\E i \in 1..Len(row_data) : Len(row_data[i]) > 2 THEN <<>>
    ELSE IF AnyIn(table_headers, Lower(JoinSpace(row_data))) /\ row_idx < HeaderRows
    THEN <<>>
    ELSE NoneOr(_parse_table_row(row_data, now), now)
\* lines 66-77 for the stripped cells row_data of a row
StrippedRow(row_data, row_idx, now) ==
    IF ~\E i \in 1..Len(row_data) : Len(row_data[i]) > 2 THEN <<>>
    ELSE IF AnyIn(table_headers, Lower(JoinSpace(row_data))) /\ row_idx < HeaderRows
    THEN <<>>
    ELSE _parse_table_row(row_data, now)
\* lines 61-77 for one row: <<the transaction>> when the row is passed to
\* _parse_table_row and gives one, else <<>>
TableRowResult(r, now) ==
    IF Len(r.row) < 2 THEN <<>>
    ELSE StrippedRow([i \in 1..Len(r.row) |-> Strip(r.row[i])], r.row_idx, now)

\* is_duplicate without the comparison of the descriptions
is_duplicate_by_date_and_amount(tx, existing) ==
    /\ tx.date = existing.date
    /\ Abs(tx.amount - existing.amount) < 1
\* is_duplicate comparing the whole descriptions
is_duplicate_whole_description(tx, existing) ==
    /\ tx.date = existing.date
    /\ Abs(tx.amount - existing.amount) < 1
    /\ tx.description = existing.description
\* the duplicate check of lines 99-104
is_duplicate(tx, existing) ==
    /\ tx.date = existing.date
    /\ Abs(tx.amount - existing.amount) < 1
    /\ SubSeq(tx.description, 1, Min2(PrefixLen, Len(tx.description)))
       = SubSeq(existing.description, 1, Min2(PrefixLen, Len(existing.description)))

\* the loop of lines 97-106: acc.kept are the transactions so far, acc.gone
\* the text transactions found to be duplicates
RECURSIVE MergeText(_, _)
MergeText(text_txs, acc) ==
    IF Len(text_txs) = 0 THEN acc
    ELSE LET tx == Head(text_txs)
             dup == \E i \in 1..Len(acc.kept) : is_duplicate(tx, acc.kept[i])
         IN  MergeText(Tail(text_txs),
                       IF dup THEN [acc EXCEPT !.gone = Append(@, tx)]
                       ELSE [acc EXCEPT !.kept = Append(@, tx)])

(***************************************************************************)
(* Documents: what extract_tables() and extract_text() give for each page  *)
(***************************************************************************)
MaxPages == 2
MaxRuns == 2
MaxTick == 2

rowShiv == << <<"₹","8","5">>, <<"S","h","i","v"," ","K","u","m","a","r">>, <<"0","1","-","1","0","-","2","0","2","5">> >>
rowGrocery == << <<"-","1","2","0">>, <<"G","r","o","c","e","r","y"," ","s","h","o","p">>, <<"0","5","-","1","0","-","2","0","2","5">> >>
rowBracket == << <<"(","4","5",")">>, <<"T","e","a"," ","s","t","a","l","l">>, <<"0","6","-","1","0","-","2","0","2","5">> >>
rowBook == << <<"2","0","3","5","-","1","2","-","2","5">>, <<"B","o","o","k"," ","s","t","o","r","e">>, <<"₹","4","0">> >>
rowHeader == << <<"D","a","t","e">>, <<"D","e","t","a","i","l","s">>, <<"A","m","o","u","n","t">> >>
rowNote == << <<"O","p","e","n","i","n","g"," ","b","a","l","a","n","c","e">>, <<"n","/","a">> >>
lineShiv == <<"0","1","O","c","t",",","2","0","2","5"," ","S","h","i","v"," ","K","u","m","a","r"," ","₹","8","5"," ","0","8",":","3","8","A","M">>
lineRavi == <<"3","1","F","e","b",",","2","0","2","5"," ","P","a","i","d","t","o","R","a","v","i"," ","₹","6","0"," ","0","9",":","0","0","A","M">>
linePacked == <<"0","5","O","c","t",",","2","0","2","5"," ","P","a","i","d","t","o","S","h","i","v"," ","K","u","m","a","r"," ","₹","8","5"," ","0","8",":","3","8","A","M"," ","U","P","I","T","r","a","n","s","a","c","t","i","o","n","I","D",":","1","2","3","4","5"," ","0","3","O","c","t",",","2","0","2","5"," ","R","e","c","e","i","v","e","d","f","r","o","m","J","o","h","n"," ","₹","2","0","0"," ","0","9",":","0","0","A","M">>
lineDelhi == <<"0","1","O","c","t",",","2","0","2","5"," ","P","a","i","d","t","o","S","h","i","v"," ","K","u","m","a","r"," ","G","e","n","e","r","a","l"," ","S","t","o","r","e"," ","D","e","l","h","i"," ","₹","8","5"," ","P","a","i","d","b","y","H","D","F","C","B","a","n","k","1","2","3","4">>
lineMumbai == <<"0","1","O","c","t",",","2","0","2","5"," ","P","a","i","d","t","o","S","h","i","v"," ","K","u","m","a","r"," ","G","e","n","e","r","a","l"," ","S","t","o","r","e"," ","M","u","m","b","a","i"," ","₹","8","5">>
lineNote == <<"P","a","g","e"," ","1"," ","o","f"," ","3"," ","g","e","n","e","r","a","t","e","d"," ","0","1","O","c","t",",","2","0","2","5">>

Page(tables, text) == [tables |-> tables, text |-> text]
Pages == <<
    Page(<< <<rowHeader, rowShiv, rowGrocery>> >>, lineShiv \o <<"\n">> \o linePacked),
    Page(<<>>, lineRavi \o <<"\n">> \o lineDelhi \o <<"\n">> \o lineShiv),
    Page(<< <<rowBook>>, <<rowShiv>> >>, lineMumbai \o <<"\n">> \o lineShiv),
    Page(<< <<rowShiv, rowShiv>> >>, <<>>),
    Page(<<>>, <<>>),
    Page(<< <<rowGrocery, rowBracket>> >>, lineRavi),
    Page(<< <<rowNote>> >>, lineNote) >>

\* the documents: 0..MaxPages pages
RECURSIVE DocsOfLen(_)
DocsOfLen(n) ==
    IF n = 0 THEN {<<>>}
    ELSE {Append(d, Pages[i]) : d \in DocsOfLen(n - 1), i \in 1..Len(Pages)}
Docs == UNION {DocsOfLen(n) : n \in 0..MaxPages}

\* the days on which the parser runs
Todays == {<<2026, 11, 5>>, <<2031, 1, 2>>}

(***************************************************************************)
(* Rows and lines given to a parser called alone.  Each is written from    *)
(* the values it is meant to denote: a cell or a fragment is a text with   *)
(* the date <<year, month, day>> and the amount in rupees and paise that   *)
(* it spells.                                                              *)
(***************************************************************************)
MaxFragments == 2

DateCell(text, y, m, d) == [text |-> text, date |-> <<y, m, d>>]
DateCells == {
    DateCell(<<"0","1","-","1","0","-","2","0","2","5">>, 2025, 10, 1),
    DateCell(<<"2","0","2","5","-","1","0","-","0","1">>, 2025, 10, 1),
    DateCell(<<"2","0","2","4","-","1","2","-","2","5">>, 2024, 12, 25),
    DateCell(<<"0","1"," ","O","c","t"," ","2","0","2","5">>, 2025, 10, 1),
    DateCell(<<"2","5","-","1","2","-","2","0","1","9">>, 2019, 12, 25),
    DateCell(<<"2","0","1","9","-","1","2","-","2","5">>, 2019, 12, 25),
    DateCell(<<"2","0","3","5","-","1","2","-","2","5">>, 2035, 12, 25),
    DateCell(<<"2","5","/","1","2","/","2","0","3","5">>, 2035, 12, 25) }

AmountCell(text, rupees, paise) == [text |-> text, rupees |-> rupees, paise |-> paise]
AmountCells == {
    AmountCell(<<"₹","8","5">>, 85, 0),
    AmountCell(<<"₹","1",",","2","3","4",".","5","0">>, 1234, 50),
    AmountCell(<<"₹","1",",","6","4",",","1","4","8",".","1","0">>, 164148, 10),
    AmountCell(<<"₹","1","6","4",",","1","4","8",".","1","0">>, 164148, 10),
    AmountCell(<<"8","5",".","0","0">>, 85, 0),
    AmountCell(<<"-","8","5">>, 85, 0),
    AmountCell(<<"₹","0",".","0","0">>, 0, 0),
    AmountCell(<<"₹","5","0",",","0","0","0",",","0","0","0">>, 50000000, 0),
    AmountCell(<<"₹","5","0","0","0","0","0","0","0">>, 50000000, 0) }

\* a payee text and the direction its words give ("None": no direction word)
PayeeCell(text, type) == [text |-> text, type |-> type]
PayeeCells == {
    PayeeCell(<<"P","a","i","d"," ","t","o"," ","S","h","i","v"," ","K","u","m","a","r">>, "Debit"),
    PayeeCell(<<"S","h","i","v"," ","K","u","m","a","r"," ","S","t","o","r","e">>, "None"),
    PayeeCell(<<"F","l","a","t"," ","1","2"," ","r","e","n","t">>, "None"),
    PayeeCell(<<"R","e","c","e","i","v","e","d"," ","f","r","o","m"," ","J","o","h","n">>, "Credit") }

\* a row of three cells, the date cell first or the amount cell first
RowInput(d, p, a, order) ==
    [kind |-> "row",
     text |-> IF order = 1 THEN <<d.text, p.text, a.text>>
              ELSE <<a.text, p.text, d.text>>,
     order |-> order,
     parts |-> << [date |-> d.date, rupees |-> a.rupees, paise |-> a.paise,
                   payee |-> p.text, type |-> p.type, amount_text |-> a.text] >>,
     lead |-> <<>>]
RowInputs ==
    {RowInput(d, p, a, order) : d \in DateCells, p \in PayeeCells, a \in AmountCells,
                                order \in 1..2}

\* a fragment of a statement line: a compact date token, a payee text with
\* or without a direction word, a rupee amount
Fragment(text, y, m, d, rupees, paise, payee, type) ==
    [text |-> text, date |-> <<y, m, d>>, rupees |-> rupees, paise |-> paise,
     payee |-> payee, type |-> type]
Fragments == <<
    Fragment(<<"0","1","O","c","t",",","2","0","2","5"," ","P","a","i","d","t","o","S","h","i","v"," ","K","u","m","a","r"," ","₹","8","5"," ","0","8",":","3","8","A","M"," ","U","P","I","T","r","a","n","s","a","c","t","i","o","n","I","D",":","1","2","3","4","5">>,
             2025, 10, 1, 85, 0, <<"P","a","i","d","t","o","S","h","i","v"," ","K","u","m","a","r">>, "Debit"),
    Fragment(<<"0","1","O","c","t",",","2","0","2","5"," ","R","e","c","e","i","v","e","d","f","r","o","m","J","o","h","n"," ","₹","2","0","0"," ","0","9",":","0","0","A","M">>,
             2025, 10, 1, 200, 0, <<"R","e","c","e","i","v","e","d","f","r","o","m","J","o","h","n">>, "Credit"),
    Fragment(<<"2","9","F","e","b",",","2","0","2","4"," ","S","h","i","v"," ","K","u","m","a","r"," ","S","t","o","r","e"," ","₹","1",",","2","3","4",".","5","0">>,
             2024, 2, 29, 1234, 50, <<"S","h","i","v"," ","K","u","m","a","r"," ","S","t","o","r","e">>, "None"),
    Fragment(<<"0","1","O","c","t",",","2","0","2","5"," ","P","a","i","d","t","o","R","a","v","i"," ","₹","1",",","6","4",",","1","4","8",".","1","0">>,
             2025, 10, 1, 164148, 10, <<"P","a","i","d","t","o","R","a","v","i">>, "Debit"),
    Fragment(<<"3","1","F","e","b",",","2","0","2","5"," ","P","a","i","d","t","o","R","a","v","i"," ","₹","6","0"," ","0","9",":","0","0","A","M">>,
             2025, 2, 31, 60, 0, <<"P","a","i","d","t","o","R","a","v","i">>, "Debit"),
    Fragment(<<"0","1","X","y","z",",","2","0","2","5"," ","P","a","i","d","t","o","R","a","v","i"," ","₹","6","0">>,
             2025, 0, 1, 60, 0, <<"P","a","i","d","t","o","R","a","v","i">>, "Debit"),
    Fragment(<<"0","1","O","c","t",",","2","0","1","9"," ","P","a","i","d","t","o","R","a","v","i"," ","₹","6","0">>,
             2019, 10, 1, 60, 0, <<"P","a","i","d","t","o","R","a","v","i">>, "Debit"),
    Fragment(<<"0","1","O","c","t",",","2","0","2","5"," ","P","a","i","d","t","o","R","a","v","i"," ","₹","0",".","0","0">>,
             2025, 10, 1, 0, 0, <<"P","a","i","d","t","o","R","a","v","i">>, "Debit"),
    Fragment(<<"0","1","O","c","t",",","2","0","2","5"," ","P","a","i","d","t","o","R","a","v","i"," ","₹","5","0","0","0","0","0","0","0">>,
             2025, 10, 1, 50000000, 0, <<"P","a","i","d","t","o","R","a","v","i">>, "Debit") >>

\* the text a line can start with, before its first date
Leads == { <<>>, <<"R","e","f"," ","₹","9","9","9"," ","9","O","c","t"," ">> }

\* the sequences of 1..n fragments
RECURSIVE FragmentSeqs(_)
FragmentSeqs(n) ==
    IF n = 0 THEN {<<>>}
    ELSE {Append(q, Fragments[i]) : q \in FragmentSeqs(n - 1), i \in 1..Len(Fragments)}
\* the line of a lead and fragments, one space between two fragments
LineInput(lead, parts) ==
    [kind |-> "line",
     text |-> lead \o JoinSpace([i \in 1..Len(parts) |-> parts[i].text]),
     order |-> 0,
     parts |-> [i \in 1..Len(parts) |->
                   [date |-> parts[i].date, rupees |-> parts[i].rupees,
                    paise |-> parts[i].paise, payee |-> parts[i].payee,
                    type |-> parts[i].type, amount_text |-> <<>>]],
     lead |-> lead]
LineInputs ==
    {LineInput(lead, parts) : lead \in Leads,
                              parts \in UNION {FragmentSeqs(n) : n \in 1..MaxFragments}}

(***************************************************************************)
(* Failures of the document: what pdfplumber raises for it, and where      *)
(***************************************************************************)
\* the messages of the exceptions raised on opening and on extracting
OpenMessages == { <<"N","o"," ","/","R","o","o","t"," ","o","b","j","e","c","t","!"," ","-"," ","I","s"," ","t","h","i","s"," ","r","e","a","l","l","y"," ","a"," ","P","D","F","?">>,
                  <<"I","/","O"," ","o","p","e","r","a","t","i","o","n"," ","o","n"," ","c","l","o","s","e","d"," ","f","i","l","e",".">> }
PageMessages == { <<"i","n","v","a","l","i","d"," ","l","i","t","e","r","a","l"," ","f","o","r"," ","i","n","t","(",")"," ","w","i","t","h"," ","b","a","s","e"," ","1","0",":"," ","'","x","'">>,
                  <<"l","i","s","t"," ","i","n","d","e","x"," ","o","u","t"," ","o","f"," ","r","a","n","g","e">> }
\* stage "open": pdfplumber.open raises; "tables", "text": extract_tables or
\* extract_text of the page raises
NoFault == [stage |-> "none", page |-> 0, message |-> <<>>]
OpenFaults == {[stage |-> "open", page |-> 0, message |-> m] : m \in OpenMessages}
PageFaults(d) ==
    {[stage |-> s, page |-> p, message |-> m] :
        s \in {"tables", "text"}, p \in 1..Len(d), m \in PageMessages}
\* the documents that are parsed with a failure as well
FaultyDocs == { <<>>, <<Pages[1]>>, <<Pages[1], Pages[2]>>, <<Pages[7], Pages[1]>> }
FaultsOf(d) ==
    {NoFault} \cup (IF d \in FaultyDocs THEN OpenFaults \cup PageFaults(d) ELSE {})

(***************************************************************************)
(* The except clause of parse_gpay_pdf                                     *)
(***************************************************************************)
invalid_words == << <<"p","d","f">>, <<"s","y","n","t","a","x">>, <<"i","n","v","a","l","i","d">> >>
\* line 136 looking for the word pdf only
is_invalid_pdf_by_one_word(e) == Contains(Lower(e), <<"p","d","f">>)
\* line 136, for the message e of the exception caught
is_invalid_pdf(e) == AnyIn(invalid_words, Lower(e))
\* the exception raised without the message of the one caught
error_raised_without_cause(e) ==
    IF is_invalid_pdf(e)
    THEN [kind |-> "Invalid PDF file",
          message |-> <<"I","n","v","a","l","i","d"," ","P","D","F"," ","f","i","l","e","."," ","P","l","e","a","s","e"," ","e","n","s","u","r","e"," ","y","o","u","'","r","e"," ","u","p","l","o","a","d","i","n","g"," ","a"," ","v","a","l","i","d"," ","G","P","a","y"," ","P","D","F">>]
    ELSE [kind |-> "Error parsing PDF",
          message |-> <<"E","r","r","o","r"," ","p","a","r","s","i","n","g"," ","P","D","F","."," ","P","l","e","a","s","e"," ","c","h","e","c","k"," ","i","f"," ","t","h","e"," ","P","D","F"," ","f","o","r","m","a","t"," ","i","s"," ","c","o","r","r","e","c","t",".">>]
\* lines 136-139: the exception raised for the exception with message e
error_raised(e) ==
    IF is_invalid_pdf(e)
    THEN [kind |-> "Invalid PDF file",
          message |-> <<"I","n","v","a","l","i","d"," ","P","D","F"," ","f","i","l","e","."," ","P","l","e","a","s","e"," ","e","n","s","u","r","e"," ","y","o","u","'","r","e"," ","u","p","l","o","a","d","i","n","g"," ","a"," ","v","a","l","i","d"," ","G","P","a","y"," ","P","D","F",":"," ">>
                      \o e]
    ELSE [kind |-> "Error parsing PDF",
          message |-> <<"E","r","r","o","r"," ","p","a","r","s","i","n","g"," ","P","D","F",":"," ">> \o e
                      \o <<"."," ","P","l","e","a","s","e"," ","c","h","e","c","k"," ","i","f"," ","t","h","e"," ","P","D","F"," ","f","o","r","m","a","t"," ","i","s"," ","c","o","r","r","e","c","t",".">>]

\* a document that is not closed when the with statement is left
pdf_exit_leaves_open(h) == h
\* the with statement of line 33 left: the handle h after pdf.__exit__
pdf_exit(h) == IF h = "open" THEN "closed" ELSE h

\* an empty DataFrame made without its columns
empty_columns_none == {}
\* line 128: the columns of the empty DataFrame returned
empty_columns == {"date", "description", "amount", "type"}
\* lines 117-128: the columns of the DataFrame of the transactions txs
frame_columns(txs) ==
    IF Len(txs) = 0 THEN empty_columns ELSE UNION {DOMAIN txs[i] : i \in 1..Len(txs)}

(***************************************************************************)
(* State                                                                   *)
(***************************************************************************)
VARIABLES
    doc,                \* the document given to parse_gpay_pdf
    fault,              \* the failure of the document, if it has one
    today,              \* the date part of datetime.now()
    tick,               \* the last reading of datetime.now() (0: none yet)
    run,                \* which call of parse_gpay_pdf this is
    debug,              \* the debug argument of the call
    pc,                 \* where the call is
    handle,             \* the pdfplumber document of the call: none, open, closed
    page,               \* page_num
    pos,                \* the next row of the page, or the next fragment
    transactions,       \* the list transactions
    origin,             \* for each of transactions, the path and row it came from
    text_transactions,  \* the list _parse_text_transactions is building
    dropped,            \* the text transactions the duplicate check dropped
    returned,           \* the rows of the DataFrame returned
    columns,            \* the columns of the DataFrame returned
    failure,            \* the exception the call raised
    emitted,            \* the streamlit calls of the call
    first,              \* what the first call returned
    first_failure,      \* what the first call raised
    input,              \* the row or line given to a parser called alone
    output              \* what the parser called alone returned

vars == <<doc, fault, today, tick, run, debug, pc, handle, page, pos, transactions,
          origin, text_transactions, dropped, returned, columns, failure, emitted,
          first, first_failure, input, output>>
loneVars == <<input, output>>
callVars == <<doc, fault, run, debug, handle, page, pos, transactions, origin,
              text_transactions, dropped, returned, columns, failure, emitted, first,
              first_failure>>

\* datetime.now() on the day td when the clock reads t
NowOn(td, t) == DateTime(td[1], td[2], td[3], t)
\* datetime.now() when the clock reads t
Now(t) == NowOn(today, t)
\* the fragments of the text of each page; what lines 61-77 give for each row
\* of the pages, and _parse_single_transaction for each fragment, on each day
\* and at each reading of the clock.  The calls depend on nothing else, and
\* each is worked out once.
AllRows ==
    UNION {Range(PageRows(Pages[i].tables)) : i \in 1..Len(Pages)}
PageFragments == [p \in Range(Pages) |-> TextFragments(p.text)]
AllFragments == UNION {Range(PageFragments[p]) : p \in Range(Pages)}
RowRecords ==
    [r \in AllRows |-> [td \in Todays |-> [t \in 1..MaxTick |->
        TableRowResult(r, NowOn(td, t))]]]
FragmentRecords ==
    [f \in AllFragments |-> [td \in Todays |-> [t \in 1..MaxTick |->
        _parse_single_transaction(f, NowOn(td, t))]]]
\* the readings the clock can give next
Readings == Max2(tick, 1)..MaxTick
\* the last reading after transactions txs were parsed at reading t
Read(txs, t) ==
    IF \E i \in 1..Len(txs) : txs[i].date.tick > 0 THEN t ELSE tick

NoInput == [kind |-> "none", text |-> <<>>, order |-> 0, parts |-> <<>>, lead |-> <<>>]

\* no call of parse_gpay_pdf has been made
NoCall ==
    /\ run = 1
    /\ handle = "none"
    /\ page = 0
    /\ pos = 0
    /\ transactions = <<>>
    /\ origin = <<>>
    /\ text_transactions = <<>>
    /\ dropped = <<>>
    /\ returned = <<>>
    /\ columns = {}
    /\ failure = <<>>
    /\ emitted = <<>>
    /\ first = <<>>
    /\ first_failure = <<>>

Init ==
    /\ doc \in Docs
    /\ fault \in FaultsOf(doc)
    /\ today \in Todays
    /\ tick = 0
    /\ debug = FALSE
    /\ pc = "idle"
    /\ NoCall
    /\ input = NoInput
    /\ output = <<>>

\* lines 24-39: the document opens, the call starts on the first page
Open ==
    /\ pc = "idle"
    /\ fault.stage # "open"
    /\ pc' = "tables"
    /\ handle' = "open"
    /\ page' = 1
    /\ pos' = 1
    /\ transactions' = <<>>
    /\ origin' = <<>>
    /\ text_transactions' = <<>>
    /\ dropped' = <<>>
    /\ returned' = <<>>
    /\ columns' = {}
    /\ failure' = <<>>
    /\ emitted' = <<>>
    /\ UNCHANGED <<doc, fault, today, tick, run, debug, first, first_failure, loneVars>>

\* lines 24-33: pdfplumber.open raises, there is no document to close
OpenFails ==
    /\ pc = "idle"
    /\ fault.stage = "open"
    /\ pc' = "except"
    /\ handle' = "none"
    /\ page' = 0
    /\ pos' = 0
    /\ transactions' = <<>>
    /\ origin' = <<>>
    /\ text_transactions' = <<>>
    /\ dropped' = <<>>
    /\ returned' = <<>>
    /\ columns' = {}
    /\ failure' = <<>>
    /\ emitted' = <<>>
    /\ UNCHANGED <<doc, fault, today, tick, run, debug, first, first_failure, loneVars>>

\* line 44: extract_tables of the page raises, the with statement is left
TablesFail ==
    /\ pc = "tables"
    /\ page <= Len(doc)
    /\ pos = 1
    /\ fault.stage = "tables" /\ fault.page = page
    /\ pc' = "except"
    /\ handle' = pdf_exit(handle)
    /\ UNCHANGED <<doc, fault, today, tick, run, debug, page, pos, transactions, origin,
                   text_transactions, dropped, returned, columns, failure, emitted,
                   first, first_failure, loneVars>>

\* lines 60-79: one row of the page's tables
TableRow ==
    /\ pc = "tables"
    /\ page <= Len(doc)
    /\ ~(fault.stage = "tables" /\ fault.page = page)
    /\ pos <= Len(PageRows(doc[page].tables))
    /\ \E t \in Readings :
       \E tx \in {RowRecords[PageRows(doc[page].tables)[pos]][today][t]} :
              /\ transactions' = transactions \o tx
              /\ origin' = origin \o [i \in 1..Len(tx) |->
                               [path |-> "table",
                                row |-> PageRows(doc[page].tables)[pos].row]]
              /\ tick' = Read(tx, t)
    /\ pos' = pos + 1
    /\ UNCHANGED <<doc, fault, today, run, debug, pc, handle, page, text_transactions,
                   dropped, returned, columns, failure, emitted, first, first_failure,
                   loneVars>>

\* line 82: the tables are done, extract_text of the page raises
TextFails ==
    /\ pc = "tables"
    /\ page <= Len(doc)
    /\ pos > Len(PageRows(doc[page].tables))
    /\ fault.stage = "text" /\ fault.page = page
    /\ pc' = "except"
    /\ handle' = pdf_exit(handle)
    /\ UNCHANGED <<doc, fault, today, tick, run, debug, page, pos, transactions, origin,
                   text_transactions, dropped, returned, columns, failure, emitted,
                   first, first_failure, loneVars>>

\* line 82: the tables are done, the text is extracted
ExtractText ==
    /\ pc = "tables"
    /\ page <= Len(doc)
    /\ fault.page # page
    /\ pos > Len(PageRows(doc[page].tables))
    /\ pc' = "text"
    /\ pos' = 1
    /\ text_transactions' = <<>>
    /\ UNCHANGED <<doc, fault, today, tick, run, debug, handle, page, transactions,
                   origin, dropped, returned, columns, failure, emitted, first,
                   first_failure, loneVars>>

\* lines 334-352: one fragment of the page's text
TextFragment ==
    /\ pc = "text"
    /\ pos <= Len(PageFragments[doc[page]])
    /\ \E t \in Readings :
       \E tx \in {FragmentRecords[PageFragments[doc[page]][pos]][today][t]} :
              /\ text_transactions' = text_transactions \o tx
              /\ tick' = Read(tx, t)
    /\ pos' = pos + 1
    /\ UNCHANGED <<doc, fault, today, run, debug, pc, handle, page, transactions,
                   origin, dropped, returned, columns, failure, emitted, first,
                   first_failure, loneVars>>

\* lines 93-108: the text transactions are merged, the next page follows
Merge ==
    /\ pc = "text"
    /\ pos > Len(PageFragments[doc[page]])
    /\ \E m \in {MergeText(text_transactions,
                           [kept |-> transactions, gone |-> <<>>])} :
           /\ transactions' = m.kept
           /\ origin' = origin \o [i \in 1..(Len(m.kept) - Len(transactions)) |->
                                      [path |-> "text", row |-> <<>>]]
           /\ dropped' = dropped \o m.gone
    /\ text_transactions' = <<>>
    /\ page' = page + 1
    /\ pos' = 1
    /\ pc' = "tables"
    /\ UNCHANGED <<doc, fault, today, tick, run, debug, handle, returned, columns,
                   failure, emitted, first, first_failure, loneVars>>

\* lines 33-111: after the last page the with statement is left
Close ==
    /\ pc = "tables"
    /\ page > Len(doc)
    /\ pc' = "frame"
    /\ handle' = pdf_exit(handle)
    /\ UNCHANGED <<doc, fault, today, tick, run, debug, page, pos, transactions, origin,
                   text_transactions, dropped, returned, columns, failure, emitted,
                   first, first_failure, loneVars>>

\* lines 113-128: the DataFrame is made and returned
Return ==
    /\ pc = "frame"
    /\ returned' = _clean_dataframe(transactions)
    /\ columns' = frame_columns(transactions)
    /\ emitted' = IF ~debug THEN <<>>
                  ELSE IF Len(transactions) > 0 THEN <<"info", "success">>
                  ELSE <<"info", "warning">>
    /\ pc' = "returned"
    /\ first' = IF run = 1 THEN _clean_dataframe(transactions) ELSE first
    /\ UNCHANGED <<doc, fault, today, tick, run, debug, handle, page, pos, transactions,
                   origin, text_transactions, dropped, failure, first_failure, loneVars>>

\* lines 130-139: the exception is caught and another one is raised
Except ==
    /\ pc = "except"
    /\ failure' = <<error_raised(fault.message)>>
    /\ emitted' = IF ~debug THEN <<>>
                  ELSE IF fault.stage = "open" THEN <<"error">>
                  ELSE <<"error", "code">>
    /\ pc' = "raised"
    /\ first_failure' = IF run = 1 THEN <<error_raised(fault.message)>> ELSE first_failure
    /\ UNCHANGED <<doc, fault, today, tick, run, handle, debug, page, pos, transactions,
                   origin, text_transactions, dropped, returned, columns, first,
                   loneVars>>

\* the caller parses the same document again, with the other debug setting
Again ==
    /\ pc \in {"returned", "raised"}
    /\ run < MaxRuns
    /\ run' = run + 1
    /\ debug' = ~debug
    /\ pc' = "idle"
    /\ handle' = "none"
    /\ UNCHANGED <<doc, fault, today, tick, page, pos, transactions, origin,
                   text_transactions, dropped, returned, columns, failure, emitted,
                   first, first_failure, loneVars>>

Next ==
    \/ Open \/ OpenFails \/ TablesFail \/ TableRow \/ TextFails \/ ExtractText
    \/ TextFragment \/ Merge \/ Close \/ Return \/ Except \/ Again

\* parse_gpay_pdf called on a document, once or again
Spec == Init /\ [][Next]_vars

\* every step that can be taken is taken in the end
FairSpec == Spec /\ WF_vars(Next)

(***************************************************************************)
(* The two parsers called alone, each on one row or one line               *)
(***************************************************************************)
InitParse ==
    /\ doc = <<>>
    /\ fault = NoFault
    /\ today \in Todays
    /\ tick = 0
    /\ debug = FALSE
    /\ pc = "given"
    /\ NoCall
    /\ input \in RowInputs \cup LineInputs
    /\ output = <<>>

\* _parse_table_row(input)
ParseRow ==
    /\ pc = "given"
    /\ input.kind = "row"
    /\ \E t \in Readings :
          /\ output' = _parse_table_row(input.text, Now(t))
          /\ tick' = t
    /\ pc' = "parsed"
    /\ UNCHANGED <<today, input, callVars>>

\* _parse_text_transactions(input)
ParseLine ==
    /\ pc = "given"
    /\ input.kind = "line"
    /\ \E t \in Readings :
          /\ output' = _parse_text_transactions(input.text, Now(t))
          /\ tick' = t
    /\ pc' = "parsed"
    /\ UNCHANGED <<today, input, callVars>>

NextParse == ParseRow \/ ParseLine

SpecParse == InitParse /\ [][NextParse]_vars

(***************************************************************************)
(* _parse_date called alone on a date written day, month, year             *)
(***************************************************************************)
\* n in decimal, with zeros in front up to width digits
RECURSIVE Numeral(_, _)
Numeral(n, width) ==
    IF n < 10 /\ width <= 1 THEN <<Digits[n + 1]>>
    ELSE Numeral(n \div 10, width - 1) \o <<Digits[(n % 10) + 1]>>

DateDays == {1, 5, 12, 13, 25, 29, 31}
DateMonths == {1, 2, 3, 12}
DateYears == {1999, 2024, 2025}
DateSeparators == {"-", "/", "."}
\* day d, month m, year y written d<sep>m<sep>y, the day and the month with
\* width digits at least, the year with four
DateInput(d, m, y, sep, width) ==
    [kind |-> "date",
     text |-> Numeral(d, width) \o <<sep>> \o Numeral(m, width) \o <<sep>> \o Numeral(y, 4),
     order |-> 0,
     parts |-> << [date |-> <<y, m, d>>, rupees |-> 0, paise |-> 0, payee |-> <<>>,
                   type |-> "None", amount_text |-> <<>>] >>,
     lead |-> <<>>]
DateInputs ==
    {DateInput(d, m, y, sep, width) : d \in DateDays, m \in DateMonths, y \in DateYears,
                                      sep \in DateSeparators, width \in 1..2}

InitDate ==
    /\ doc = <<>>
    /\ fault = NoFault
    /\ today \in Todays
    /\ tick = 0
    /\ debug = FALSE
    /\ pc = "given"
    /\ NoCall
    /\ input \in DateInputs
    /\ output = <<>>

\* _parse_date(input)
ParseDate ==
    /\ pc = "given"
    /\ input.kind = "date"
    /\ \E t \in Readings :
          /\ output' = <<_parse_date(input.text, Now(t))>>
          /\ tick' = t
    /\ pc' = "parsed"
    /\ UNCHANGED <<today, input, callVars>>

NextDate == ParseDate

SpecDate == InitDate /\ [][NextDate]_vars

(***************************************************************************)
(* categorize_transaction of src/analyzer.py called alone                  *)
(***************************************************************************)
\* CATEGORY_KEYWORDS, in the order of its declaration
CATEGORY_KEYWORDS == <<
    [category |-> "Food & Dining",
     keywords |-> <<
          <<"s","w","i","g","g","y">>, <<"z","o","m","a","t","o">>, <<"u","b","e","r"," ","e","a","t","s">>, <<"f","o","o","d">>, <<"r","e","s","t","a","u","r","a","n","t">>,
          <<"c","a","f","e">>, <<"p","i","z","z","a">>, <<"b","u","r","g","e","r">>, <<"d","o","m","i","n","o","s">>, <<"m","c","d","o","n","a","l","d">>, <<"k","f","c">>,
          <<"s","t","a","r","b","u","c","k","s">>, <<"c","o","f","f","e","e">>, <<"t","e","a">>, <<"b","a","k","e","r","y">>, <<"g","r","o","c","e","r","y">>,
          <<"b","i","g","b","a","s","k","e","t">>, <<"g","r","o","f","e","r","s">>, <<"d","u","n","z","o">>, <<"z","e","p","t","o">> >>],
    [category |-> "Transport",
     keywords |-> <<
          <<"u","b","e","r">>, <<"o","l","a">>, <<"r","a","p","i","d","o">>, <<"m","e","t","r","o">>, <<"b","u","s">>, <<"t","r","a","i","n">>,
          <<"r","a","i","l","w","a","y">>, <<"f","l","i","g","h","t">>, <<"a","i","r","l","i","n","e">>, <<"t","a","x","i">>, <<"c","a","b">>, <<"f","u","e","l">>,
          <<"p","e","t","r","o","l">>, <<"d","i","e","s","e","l">>, <<"p","a","r","k","i","n","g">>, <<"t","o","l","l">> >>],
    [category |-> "Shopping",
     keywords |-> <<
          <<"a","m","a","z","o","n">>, <<"f","l","i","p","k","a","r","t">>, <<"m","y","n","t","r","a">>, <<"n","y","k","a","a">>, <<"s","h","o","p","p","i","n","g">>,
          <<"s","t","o","r","e">>, <<"m","a","l","l">>, <<"f","a","s","h","i","o","n">>, <<"c","l","o","t","h","e","s">>, <<"a","p","p","a","r","e","l">>,
          <<"e","l","e","c","t","r","o","n","i","c","s">>, <<"p","h","o","n","e">>, <<"m","o","b","i","l","e">> >>],
    [category |-> "Entertainment",
     keywords |-> <<
          <<"n","e","t","f","l","i","x">>, <<"p","r","i","m","e">>, <<"s","p","o","t","i","f","y">>, <<"y","o","u","t","u","b","e">>, <<"m","o","v","i","e">>,
          <<"c","i","n","e","m","a">>, <<"t","h","e","a","t","r","e">>, <<"g","a","m","e">>, <<"g","a","m","i","n","g">>, <<"p","l","a","y","s","t","a","t","i","o","n">>,
          <<"x","b","o","x">>, <<"b","o","o","k">>, <<"m","u","s","i","c">> >>],
    [category |-> "Bills & Utilities",
     keywords |-> <<
          <<"e","l","e","c","t","r","i","c","i","t","y">>, <<"w","a","t","e","r">>, <<"g","a","s">>, <<"p","h","o","n","e">>, <<"i","n","t","e","r","n","e","t">>, <<"w","i","f","i">>,
          <<"b","r","o","a","d","b","a","n","d">>, <<"m","o","b","i","l","e"," ","b","i","l","l">>, <<"p","o","s","t","p","a","i","d">>, <<"p","r","e","p","a","i","d">>, <<"j","i","o">>,
          <<"a","i","r","t","e","l">>, <<"v","o","d","a","f","o","n","e">>, <<"u","t","i","l","i","t","y">>, <<"b","i","l","l"," ","p","a","y","m","e","n","t">> >>],
    [category |-> "Healthcare",
     keywords |-> <<
          <<"h","o","s","p","i","t","a","l">>, <<"c","l","i","n","i","c">>, <<"p","h","a","r","m","a","c","y">>, <<"m","e","d","i","c","i","n","e">>, <<"m","e","d","i","c","a","l">>,
          <<"d","o","c","t","o","r">>, <<"a","p","o","l","l","o">>, <<"m","e","d","p","l","u","s">>, <<"1","m","g">>, <<"p","r","a","c","t","o">>, <<"h","e","a","l","t","h">>,
          <<"i","n","s","u","r","a","n","c","e">> >>],
    [category |-> "Education",
     keywords |-> <<
          <<"s","c","h","o","o","l">>, <<"c","o","l","l","e","g","e">>, <<"u","n","i","v","e","r","s","i","t","y">>, <<"t","u","i","t","i","o","n">>, <<"c","o","u","r","s","e">>,
          <<"e","d","u","c","a","t","i","o","n">>, <<"b","o","o","k">>, <<"s","t","a","t","i","o","n","e","r","y">>, <<"e","x","a","m">>, <<"f","e","e">> >>],
    [category |-> "Banking & Finance",
     keywords |-> <<
          <<"b","a","n","k">>, <<"a","t","m">>, <<"w","i","t","h","d","r","a","w","a","l">>, <<"d","e","p","o","s","i","t">>, <<"l","o","a","n">>, <<"e","m","i">>,
          <<"c","r","e","d","i","t"," ","c","a","r","d">>, <<"i","n","t","e","r","e","s","t">>, <<"c","h","a","r","g","e","s">>, <<"f","e","e">>, <<"t","r","a","n","s","f","e","r">>,
          <<"u","p","i">> >>],
    [category |-> "Travel",
     keywords |-> <<
          <<"h","o","t","e","l">>, <<"b","o","o","k","i","n","g">>, <<"t","r","a","v","e","l">>, <<"t","r","i","p">>, <<"v","a","c","a","t","i","o","n">>, <<"t","o","u","r">>,
          <<"t","o","u","r","i","s","m">>, <<"m","a","k","e"," ","m","y"," ","t","r","i","p">>, <<"g","o","i","b","i","b","o">>, <<"o","y","o">>, <<"a","i","r","b","n","b">> >>],
    [category |-> "Recharge & DTH",
     keywords |-> <<
          <<"r","e","c","h","a","r","g","e">>, <<"d","t","h">>, <<"t","v">>, <<"c","a","b","l","e">>, <<"d","i","s","h">>, <<"t","a","t","a"," ","s","k","y">>,
          <<"a","i","r","t","e","l"," ","d","i","g","i","t","a","l">>, <<"j","i","o">>, <<"v","o","d","a","f","o","n","e"," ","i","d","e","a">> >>],
    [category |-> "Investments",
     keywords |-> <<
          <<"m","u","t","u","a","l"," ","f","u","n","d">>, <<"s","i","p">>, <<"s","t","o","c","k","s">>, <<"e","q","u","i","t","y">>, <<"i","n","v","e","s","t","m","e","n","t">>,
          <<"f","d">>, <<"r","d">>, <<"g","o","l","d">>, <<"c","r","y","p","t","o">>, <<"b","i","t","c","o","i","n">> >>],
    [category |-> "Other", keywords |-> << >>] >>

\* lines 80-87 scanned from the last category to the first: the last category
\* with a keyword in desc_lower
RECURSIVE CategoryFromLast(_, _)
CategoryFromLast(i, desc_lower) ==
    IF i > Len(CATEGORY_KEYWORDS) THEN "Other"
    ELSE IF CategoryFromLast(i + 1, desc_lower) # "Other"
    THEN CategoryFromLast(i + 1, desc_lower)
    ELSE IF AnyIn(CATEGORY_KEYWORDS[i].keywords, desc_lower)
    THEN CATEGORY_KEYWORDS[i].category
    ELSE "Other"
\* lines 80-87 from the i-th category on: the first category, 'Other' passed
\* over, with a keyword in desc_lower, else 'Other'
RECURSIVE CategoryFrom(_, _)
CategoryFrom(i, desc_lower) ==
    IF i > Len(CATEGORY_KEYWORDS) THEN "Other"
    ELSE IF CATEGORY_KEYWORDS[i].category = "Other"
    THEN CategoryFrom(i + 1, desc_lower)
    ELSE IF AnyIn(CATEGORY_KEYWORDS[i].keywords, desc_lower)
    THEN CATEGORY_KEYWORDS[i].category
    ELSE CategoryFrom(i + 1, desc_lower)
\* categorize_transaction(description); description is <<the text>>, or <<>>
\* for None and NaN
categorize_transaction(description) ==
    IF description = <<>> THEN "Other"
    ELSE IF description[1] = <<>> THEN "Other"
    ELSE CategoryFrom(1, Lower(description[1]))

\* the words the descriptions given are made of
DescriptionWords ==
    { <<"S","w","i","g","g","y">>, <<"U","B","E","R">>, <<"U","b","e","r"," ","E","a","t","s">>, <<"P","h","o","n","e">>, <<"B","o","o","k">>, <<"f","e","e">>, <<"C","o","f","f","e","e">>, <<"J","i","o">>,
      <<"H","o","t","e","l">>, <<"G","o","l","d">>, <<"R","a","v","i">>, <<"O","r","d","e","r">>, <<"C","o","l","a">>, <<"O","t","h","e","r">> }
DescriptionInput(kind, text) ==
    [kind |-> kind, text |-> text, order |-> 0, parts |-> <<>>, lead |-> <<>>]
\* a description of one word or of two, an empty one, a missing one
DescriptionInputs ==
    {DescriptionInput("description", a) : a \in DescriptionWords \cup {<<>>}}
    \cup {DescriptionInput("description", a \o <<" ">> \o b) : a, b \in DescriptionWords}
    \cup {DescriptionInput("missing", <<>>)}

InitCategory ==
    /\ doc = <<>>
    /\ fault = NoFault
    /\ today \in Todays
    /\ tick = 0
    /\ debug = FALSE
    /\ pc = "given"
    /\ NoCall
    /\ input \in DescriptionInputs
    /\ output = <<>>

\* categorize_transaction(input)
Categorize ==
    /\ pc = "given"
    /\ input.kind \in {"description", "missing"}
    /\ output' = <<categorize_transaction(IF input.kind = "missing" THEN <<>>
                                          ELSE <<input.text>>)>>
    /\ pc' = "parsed"
    /\ UNCHANGED <<today, tick, input, callVars>>

NextCategory == Categorize

SpecCategory == InitCategory /\ [][NextCategory]_vars

(***************************************************************************)
(* What a row or a line spells, for the properties below                   *)
(***************************************************************************)
\* the amount a part spells is within 0.01 .. 10,000,000
SpelledInBounds(part) ==
    /\ part.rupees >= 1 \/ part.paise >= 1
    /\ part.rupees < 10000000 \/ (part.rupees = 10000000 /\ part.paise = 0)
\* the amount a part spells, in hundredths (for an amount within the bounds)
SpelledCents(part) == 100 * part.rupees + part.paise
\* the date a part spells is a calendar date
SpelledIsDate(part) == ValidDate(part.date[1], part.date[2], part.date[3])
SpelledInYears(part) == part.date[1] >= MinYear /\ part.date[1] <= MaxYear
SpelledDate(part) == DateTime(part.date[1], part.date[2], part.date[3], 0)
\* the parser has been called and has returned
RowParsed == pc = "parsed" /\ input.kind = "row"
LineParsed == pc = "parsed" /\ input.kind = "line"
AllParts(P(_)) == \A i \in 1..Len(input.parts) : P(input.parts[i])

(***************************************************************************)
(* C1  _parse_table_row on a row [date cell, payee text with a direction   *)
(* word, rupee amount cell]                                                *)
(***************************************************************************)
C1_Shape ==
    /\ RowParsed
    /\ input.order = 1
    /\ input.parts[1].type # "None"
    /\ Head(input.parts[1].amount_text) = Rupee
    /\ SpelledIsDate(input.parts[1]) /\ SpelledInYears(input.parts[1])
    /\ SpelledInBounds(input.parts[1])
\* C1: for a row of the shape [date cell, payee text cell with a direction
\* keyword, rupee amount cell] the row parser returns a record whose amount is
\* the value of the amount cell and whose description is the text of the payee
\* cell; the row ["01-10-2025", "Paid to Shiv Kumar", "₹85"] gives date
\* 2025-10-01, amount 85.0, type Debit, description "Paid to Shiv Kumar".
C1_RowGivesAmountAndPayee ==
    /\ C1_Shape =>
          /\ Len(output) = 1
          /\ output[1].amount = SpelledCents(input.parts[1])
          /\ output[1].description = input.parts[1].payee
    /\ RowParsed /\ input.text = << <<"0","1","-","1","0","-","2","0","2","5">>, <<"P","a","i","d"," ","t","o"," ","S","h","i","v"," ","K","u","m","a","r">>, <<"₹","8","5">> >> =>
          output = <<[date |-> DateTime(2025, 10, 1, 0), amount |-> 8500,
                      type |-> "Debit", description |-> <<"P","a","i","d"," ","t","o"," ","S","h","i","v"," ","K","u","m","a","r">>]>>

(***************************************************************************)
(* C2  _parse_text_transactions on a line of n fragments                   *)
(***************************************************************************)
C2_GoodPart(part) ==
    SpelledIsDate(part) /\ SpelledInYears(part) /\ SpelledInBounds(part)
C2_Qualifying ==
    /\ LineParsed
    /\ Len(Strip(input.text)) >= MinLineLen
    /\ ~AnyIn(skip_headers, Lower(input.text))
    /\ AllParts(C2_GoodPart)
C2_PackedLine == <<"0","1","O","c","t",",","2","0","2","5"," ","P","a","i","d","t","o","S","h","i","v"," ","K","u","m","a","r"," ","₹","8","5"," ","0","8",":","3","8","A","M"," ","U","P","I","T","r","a","n","s","a","c","t","i","o","n","I","D",":","1","2","3","4","5"," ","0","1","O","c","t",",","2","0","2","5"," ","R","e","c","e","i","v","e","d","f","r","o","m","J","o","h","n"," ","₹","2","0","0"," ","0","9",":","0","0","A","M">>
\* C2: a qualifying line with n occurrences of the compact date pattern, each
\* fragment holding a valid in-range date and an in-bounds rupee amount, gives
\* exactly n candidates in left-to-right order, the i-th with the date, the
\* amount and the direction of the i-th fragment; text before the first date
\* gives no candidate; the packed line of the specification gives exactly a
\* Debit of 85.0 and a Credit of 200.0.
C2_OneCandidatePerFragment ==
    /\ C2_Qualifying =>
          /\ Len(output) = Len(input.parts)
          /\ \A i \in 1..Len(input.parts) :
                /\ output[i].date = SpelledDate(input.parts[i])
                /\ output[i].amount = SpelledCents(input.parts[i])
                /\ output[i].type = IF input.parts[i].type = "Credit" THEN "Credit"
                                    ELSE "Debit"
    /\ LineParsed /\ input.text = C2_PackedLine =>
          /\ Len(output) = 2
          /\ output[1].type = "Debit" /\ output[1].amount = 8500
          /\ output[2].type = "Credit" /\ output[2].amount = 20000
\* C2 witness: a line with text before its first date and two fragments of
\* different directions has been parsed into two candidates
C2_TwoFragmentsParsed ==
    /\ C2_Qualifying
    /\ Len(input.lead) > 0
    /\ Len(input.parts) = 2
    /\ input.parts[1].type = "Credit" /\ input.parts[2].type = "Debit"
    /\ Len(output) = 2

(***************************************************************************)
(* C3  the sign of the stored amount                                       *)
(***************************************************************************)
C3_Records == transactions \o text_transactions \o returned
C3_Cells(row) == SelectSeq(StripAll(row), LAMBDA cell : Len(cell) > 0)
C3_GivesAmount(cell) ==
    Len(CellAmount(cell, \/ StartsWith(cell, <<"-">>) \/ StartsWith(cell, <<"(">>)
                         \/ Contains(Lower(cell), <<"d","e","b","i","t">>), 1)) = 1
\* the cell the amount of a row was read from carries a sign marker
C3_SignMarked(row) ==
    \E i \in 1..Len(C3_Cells(row)) :
        /\ C3_GivesAmount(C3_Cells(row)[i])
        /\ \A j \in 1..(i - 1) : ~C3_GivesAmount(C3_Cells(row)[j])
        /\ \/ Contains(C3_Cells(row)[i], <<"-">>)
           \/ StartsWith(C3_Cells(row)[i], <<"(">>)
           \/ Contains(Lower(C3_Cells(row)[i]), <<"d","e","b","i","t">>)
C3_InBounds(tx) ==
    tx.amount # 0 /\ Abs(tx.amount) >= MinAmount /\ Abs(tx.amount) <= MaxAmount
C4_OutOfBounds(part) == ~SpelledInBounds(part)
\* C4: a table row or a text fragment whose amount token denotes a value
\* below 0.01 or above 10,000,000, with or without thousands separators,
\* gives no record.
C4_OutOfBoundsGivesNoRecord ==
    /\ RowParsed /\ AllParts(C4_OutOfBounds) => output = <<>>
    /\ LineParsed /\ AllParts(C4_OutOfBounds) => output = <<>>

(***************************************************************************)
(* C5  years outside 2020 .. 2030                                          *)
(***************************************************************************)
C5_OutOfYears(part) == SpelledIsDate(part) /\ ~SpelledInYears(part)
\* C5: a table row or a text fragment whose date token denotes a calendar
\* date of a year outside 2020..2030, in any supported format, gives no
\* record.
C5_OutOfYearsGivesNoRecord ==
    /\ RowParsed /\ AllParts(C5_OutOfYears) => output = <<>>
    /\ LineParsed /\ AllParts(C5_OutOfYears) => output = <<>>

(***************************************************************************)
(* C6  compact date tokens that are no calendar date                       *)
(***************************************************************************)
C6_NoDate(part) == ~SpelledIsDate(part)
\* C6: a text fragment whose leading token has the shape of a compact date
\* but is no calendar date (unknown month, day that does not exist) gives no
\* record, whatever the current date is.
C6_NoDateGivesNoRecord ==
    LineParsed /\ AllParts(C6_NoDate) => output = <<>>

(***************************************************************************)
(* C7  the duplicate test of the merge                                     *)
(***************************************************************************)
C7_Prefix(tx) == SubSeq(tx.description, 1, Min2(20, Len(tx.description)))
\* same date, amounts less than 0.01 apart, same first 20 characters
C7_Same(a, b) ==
    /\ a.date = b.date
    /\ a.amount - b.amount < 1 /\ b.amount - a.amount < 1
    /\ C7_Prefix(a) = C7_Prefix(b)
C7_Count(tx) == Cardinality({k \in 1..Len(returned) : returned[k] = tx})
\* C7: a text-path candidate with the same date, an amount less than 0.01
\* away and the same first 20 description characters as a candidate accepted
\* before it (table path or text path, this page or an earlier one) is not
\* added; a table-path record that a dropped text candidate matches is in the
\* returned collection exactly once.
C7_TextDuplicateNotAdded ==
    /\ \A i \in 1..Len(transactions) :
          origin[i].path = "text" =>
             \A j \in 1..(i - 1) : ~C7_Same(transactions[i], transactions[j])
    /\ pc = "returned" =>
          \A d \in 1..Len(dropped) : \A i \in 1..Len(transactions) :
             origin[i].path = "table" /\ C7_Same(dropped[d], transactions[i]) =>
                C7_Count(transactions[i]) = 1
\* C7 witness: a collection has been returned after a text candidate was
\* dropped for matching a table record, and another for matching a text
\* record of an earlier page
C7_DuplicatesDropped ==
    /\ pc = "returned"
    /\ \E d \in 1..Len(dropped) : \E i \in 1..Len(transactions) :
          origin[i].path = "table" /\ C7_Same(dropped[d], transactions[i])
    /\ \E d \in 1..Len(dropped) : \E i \in 1..Len(transactions) :
          /\ origin[i].path = "text" /\ C7_Same(dropped[d], transactions[i])
          /\ dropped[d].description # transactions[i].description

(***************************************************************************)
(* C8  the returned collection                                             *)
(***************************************************************************)
\* C8: the returned collection is sorted newest first (of two adjacent
\* records the first has a date greater than or equal to the second's) and
\* holds no two records equal in all four fields.
C8_SortedAndDistinct ==
    pc = "returned" =>
       /\ \A k \in 1..(Len(returned) - 1) :
             ~DateLess(returned[k].date, returned[k + 1].date)
       /\ \A k \in 1..Len(returned) : \A l \in 1..Len(returned) :
             returned[k] = returned[l] => k = l
\* C8 witness: a collection of several dates has been returned from accepted
\* records in another order, two of them equal in all four fields
C8_SortedAfterDuplicates ==
    /\ pc = "returned"
    /\ Len(returned) >= 2
    /\ DateLess(returned[Len(returned)].date, returned[1].date)
    /\ \E i \in 1..Len(transactions) : \E j \in 1..Len(transactions) :
          /\ i < j /\ DateLess(transactions[i].date, transactions[j].date)
    /\ \E i \in 1..Len(transactions) : \E j \in 1..Len(transactions) :
          i < j /\ transactions[i] = transactions[j]

(***************************************************************************)
(* C9  parsing the same document twice                                     *)
(***************************************************************************)
\* C9: two calls of parse_gpay_pdf on the same document, at any two points in
\* time, return collections identical in content and order.
C9_SecondCallReturnsTheSame ==
    pc = "returned" /\ run > 1 => returned = first

(***************************************************************************)
(* C10  the default direction                                              *)
(***************************************************************************)
C10_RowWords(keywords) ==
    \E i \in 1..Len(input.text) : AnyIn(keywords, Lower(input.text[i]))
C10_LineWords(keywords) == AnyIn(keywords, Lower(input.text))
\* C10: a record of either parser has type Debit when no direction keyword
\* occurs in its row or fragment, and type Credit only when a credit keyword
\* occurs.
C10_DefaultIsDebit ==
    /\ RowParsed =>
          \A i \in 1..Len(output) :
             /\ ~C10_RowWords(row_debit_keywords \o row_credit_keywords) =>
                   output[i].type = "Debit"
             /\ output[i].type = "Credit" => C10_RowWords(row_credit_keywords)
    /\ LineParsed =>
          \A i \in 1..Len(output) :
             /\ ~C10_LineWords(debit_keywords \o credit_keywords) =>
                   output[i].type = "Debit"
             /\ output[i].type = "Credit" => C10_LineWords(credit_keywords)
\* C10 as amended: a record of the fragment parser has type Debit when no
\* direction keyword occurs in its text, and type Credit only when a credit
\* keyword occurs; a record of the row parser whose row holds no direction
\* keyword has type Debit when its stored amount is negative and type Credit
\* otherwise, and when the row holds keywords it has type Credit only when a
\* credit keyword occurs.
C10_DefaultBySign ==
    /\ RowParsed =>
          \A i \in 1..Len(output) :
             /\ ~C10_RowWords(row_debit_keywords \o row_credit_keywords) =>
                   output[i].type = IF output[i].amount < 0 THEN "Debit" ELSE "Credit"
             /\ C10_RowWords(row_debit_keywords \o row_credit_keywords)
                /\ output[i].type = "Credit" => C10_RowWords(row_credit_keywords)
    /\ LineParsed =>
          \A i \in 1..Len(output) :
             /\ ~C10_LineWords(debit_keywords \o credit_keywords) =>
                   output[i].type = "Debit"
             /\ output[i].type = "Credit" => C10_LineWords(credit_keywords)
\* C10 witness: a row without a direction keyword has given a Credit record
\* of positive amount
C10_RowWithoutWordIsCredit ==
    /\ RowParsed
    /\ ~C10_RowWords(row_debit_keywords \o row_credit_keywords)
    /\ Len(output) = 1
    /\ output[1].type = "Credit" /\ output[1].amount > 0

(***************************************************************************)
(* C11  amounts written with thousands separators                          *)
(***************************************************************************)
\* digits ds in groups of size digits from the right, a comma between groups
RECURSIVE C11_Groups(_, _)
C11_Groups(ds, size) ==
    IF Len(ds) <= size THEN ds
    ELSE C11_Groups(SubSeq(ds, 1, Len(ds) - size), size) \o <<",">>
         \o SubSeq(ds, Len(ds) - size + 1, Len(ds))
\* western grouping 164,148 and Indian grouping 1,64,148
C11_Western(ds) == C11_Groups(ds, 3)
C11_Indian(ds) ==
    IF Len(ds) <= 3 THEN ds
    ELSE C11_Groups(SubSeq(ds, 1, Len(ds) - 3), 2) \o <<",">>
         \o SubSeq(ds, Len(ds) - 2, Len(ds))
\* the ways an amount of at least 1,000 rupees is written with a rupee
\* symbol and thousands separators
C11_Written(part) ==
    IF part.rupees < 1000 THEN {}
    ELSE {<<Rupee>> \o g \o <<".", Digits[(part.paise \div 10) + 1],
                              Digits[(part.paise % 10) + 1]>> :
             g \in {C11_Western(Numeral(part.rupees, 1)),
                    C11_Indian(Numeral(part.rupees, 1))}}
C11_RowCase ==
    /\ RowParsed
    /\ SpelledInBounds(input.parts[1])
    /\ input.parts[1].amount_text \in C11_Written(input.parts[1])
    /\ SpelledIsDate(input.parts[1]) /\ SpelledInYears(input.parts[1])
C11_LineCase(i) ==
    /\ SpelledInBounds(input.parts[i])
    /\ \E w \in C11_Written(input.parts[i]) : Contains(input.text, w)
\* C11: an amount within 0.01..10,000,000 written with a rupee symbol and
\* thousands separators (Indian or western grouping) is recovered exactly,
\* both from a table cell given to the row parser and from a text fragment
\* given to the fragment parser; "₹1,64,148.10" yields 164148.10.
C11_SeparatorsRoundTrip ==
    /\ C11_RowCase =>
          /\ Len(output) = 1
          /\ Abs(output[1].amount) = SpelledCents(input.parts[1])
    /\ LineParsed /\ AllParts(C2_GoodPart) =>
          \A i \in 1..Len(input.parts) :
             C11_LineCase(i) =>
                /\ Len(output) = Len(input.parts)
                /\ output[i].amount = SpelledCents(input.parts[i])

(***************************************************************************)
(* C12  one date written with '-', '/' or '.'                              *)
(***************************************************************************)
DateParsed == pc = "parsed" /\ input.kind = "date"
\* C12: for every valid day d, month m and year y the tokens d-m-y, d/m/y and
\* d.m.y (four-digit year) all give the date (y, m, d), "25-12-2024",
\* "25/12/2024" and "25.12.2024" giving 25 December 2024; a token that is
\* valid both as day-month-year and as month-day-year is read as
\* day-month-year.
C12_SameDateInEveryFormat ==
    DateParsed /\ SpelledIsDate(input.parts[1]) =>
       output = <<SpelledDate(input.parts[1])>>
\* C12 witness: a token with '/' that is also a date as month/day/year has
\* been parsed as day/month/year
C12_AmbiguousReadDayFirst ==
    /\ DateParsed
    /\ input.text = <<"0","5","/","0","3","/","2","0","2","4">>
    /\ output = <<DateTime(2024, 3, 5, 0)>>

(***************************************************************************)
(* C13  a document that gives no record                                    *)
(***************************************************************************)
\* C13: when the document opens and no row or fragment yields a record (no
\* pages, pages with no tables and no text, only unparseable content),
\* parse_gpay_pdf raises nothing and returns an empty collection whose
\* columns are exactly date, description, amount and type.
C13_NoRecordGivesEmptyFrame ==
    /\ fault = NoFault => pc \notin {"except", "raised"} /\ failure = <<>>
    /\ pc = "returned" /\ Len(transactions) = 0 =>
          /\ returned = <<>>
          /\ columns = {"date", "description", "amount", "type"}
          /\ failure = <<>>
\* C13 witness: a document of a page with only unparseable content and a page
\* with no tables and no text has been parsed, and an empty collection with
\* the four columns returned
C13_UnparseableReturnedEmpty ==
    /\ pc = "returned"
    /\ doc = <<Pages[7], Pages[5]>>
    /\ Len(PageRows(doc[1].tables)) > 0 /\ Len(TextFragments(doc[1].text)) > 0
    /\ doc[2] = Page(<<>>, <<>>)
    /\ returned = <<>>
    /\ columns = {"date", "description", "amount", "type"}

(***************************************************************************)
(* C14  an exception on opening or on extracting                           *)
(***************************************************************************)
C14_Kinds == { <<"I","n","v","a","l","i","d"," ","P","D","F"," ","f","i","l","e">>, <<"E","r","r","o","r"," ","p","a","r","s","i","n","g"," ","P","D","F">> }
\* C14: an exception raised on opening the document or on extracting the
\* tables or the text of a page aborts the run: no collection is returned,
\* not even the candidates accepted from earlier pages, and exactly one
\* failure is raised, of one of the two kinds "Invalid PDF file" and "Error
\* parsing PDF", whose message contains the message of the exception.
C14_ExceptionAbortsTheRun ==
    /\ fault # NoFault =>
          /\ pc \notin {"frame", "returned"}
          /\ returned = <<>> /\ columns = {}
    /\ pc = "raised" =>
          /\ Len(failure) = 1
          /\ Cardinality({k \in C14_Kinds : StartsWith(failure[1].message, k)}) = 1
          /\ Contains(failure[1].message, fault.message)
\* C14 witness: extract_text of the second page has raised after records of
\* the first page were accepted, and the failure has been raised
C14_RaisedAfterAcceptedRecords ==
    /\ pc = "raised"
    /\ fault.stage = "text" /\ fault.page = 2
    /\ Len(transactions) > 0
    /\ returned = <<>>
    /\ Len(failure) = 1

(***************************************************************************)
(* C15  the kind of the failure raised                                     *)
(***************************************************************************)
\* C15: a failure of the document (it cannot be opened) is raised as
\* "Invalid PDF file" and every other exception of the pass as "Error parsing
\* PDF", whatever the wording of the message of the exception.
C15_KindByOrigin ==
    pc = "raised" =>
       /\ fault.stage = "open" => failure[1].kind = "Invalid PDF file"
       /\ fault.stage # "open" => failure[1].kind = "Error parsing PDF"
\* C15 as amended: the failure is raised as "Invalid PDF file" exactly when
\* the lower-cased message of the exception holds "pdf", "syntax" or
\* "invalid", and as "Error parsing PDF" otherwise, wherever the exception was
\* raised.
C15_KindByWording ==
    pc = "raised" =>
       /\ failure[1].kind \in {"Invalid PDF file", "Error parsing PDF"}
       /\ failure[1].kind = "Invalid PDF file" <=>
             \E w \in { <<"p","d","f">>, <<"s","y","n","t","a","x">>, <<"i","n","v","a","l","i","d">> } :
                Contains(Lower(fault.message), w)
\* C15 witness: a failure to open the document has been raised as "Error
\* parsing PDF", its message holding none of the three words
C15_OpenFailureRaisedAsParsingError ==
    /\ pc = "raised"
    /\ fault.stage = "open"
    /\ failure[1].kind = "Error parsing PDF"

(***************************************************************************)
(* C16  a row or a fragment that gives no record                           *)
(***************************************************************************)
\* the row parser gives no record for the row at pos
C16_RowFails ==
    _parse_table_row(StripAll(PageRows(doc[page].tables)[pos].row), Now(1)) = <<>>
\* the fragment parser gives no record for the fragment at pos
C16_FragmentFails ==
    _parse_single_transaction(PageFragments[doc[page]][pos], Now(1)) = <<>>
\* the step of the row at pos, the step of the fragment at pos
C16_RowStep ==
    /\ pc = "tables" /\ page <= Len(doc) /\ pos <= Len(PageRows(doc[page].tables))
    /\ pos' # pos
C16_FragmentStep ==
    /\ pc = "text" /\ pos <= Len(PageFragments[doc[page]])
    /\ pos' # pos
\* C16: a table row or a text fragment that yields no date or no amount adds
\* nothing to the accepted list, leaves every accepted candidate as it is,
\* lets the pass go on with the next row or fragment, and raises no failure.
C16_FailedRowIsAbsorbed ==
    [][ /\ C16_RowStep /\ C16_RowFails =>
            /\ transactions' = transactions
            /\ pc' = "tables" /\ page' = page /\ pos' = pos + 1
            /\ failure' = <<>>
        /\ C16_FragmentStep /\ C16_FragmentFails =>
            /\ transactions' = transactions
            /\ text_transactions' = text_transactions
            /\ pc' = "text" /\ page' = page /\ pos' = pos + 1
            /\ failure' = <<>>
      ]_vars
\* C16 witness: after the records of a first page were accepted, a page whose
\* row and fragment give no record has been passed, and the records of the
\* first page have been returned
C16_ReturnedAfterFailedRow ==
    /\ pc = "returned"
    /\ doc = <<Pages[1], Pages[7]>>
    /\ _parse_table_row(rowNote, Now(1)) = <<>>
    /\ _parse_text_transactions(lineNote, Now(1)) = <<>>
    /\ Len(returned) > 0
    /\ failure = <<>>

(***************************************************************************)
(* C17  the document handle                                                *)
(***************************************************************************)
\* C17: the document opened by parse_gpay_pdf is released in the end on every
\* path (records returned, empty result, exception in the middle of a page),
\* and is never open once parse_gpay_pdf has returned or raised.
C17_HandleReleased ==
    /\ [](pc \in {"returned", "raised"} => handle # "open")
    /\ [](handle = "open" => <>(handle = "closed"))
\* C17 witness: extract_tables of the second page has raised, the failure has
\* been raised and the document is closed
C17_ClosedAfterException ==
    /\ pc = "raised"
    /\ fault.stage = "tables" /\ fault.page = 2
    /\ handle = "closed"

(***************************************************************************)
(* C18  the debug argument                                                 *)
(***************************************************************************)
\* C18: for every document the call with debug=True returns the same
\* collection (same records, same order) as the call with debug=False, or
\* raises a failure of the same kind; the debug argument changes only what is
\* emitted on the diagnostic channel.
C18_DebugChangesOnlyDiagnostics ==
    /\ ~debug => emitted = <<>>
    /\ pc = "returned" /\ run = 2 => first_failure = <<>> /\ returned = first
    /\ pc = "raised" /\ run = 2 =>
          Len(first_failure) = 1 /\ failure[1].kind = first_failure[1].kind

(***************************************************************************)
(* C20  table records and text records of the returned collection          *)
(***************************************************************************)
C20_Returned(tx) == \E k \in 1..Len(returned) : returned[k] = tx
\* C20: the returned collection holds no pair of a table-path record and a
\* text-path record with the same date, amounts less than 0.01 apart and the
\* same first 20 description characters, whatever the order of the pages on
\* which the two were found.
C20_NoTableTextPair ==
    pc = "returned" =>
       \A i, j \in 1..Len(transactions) :
          /\ origin[i].path = "table" /\ origin[j].path = "text"
          /\ C20_Returned(transactions[i]) /\ C20_Returned(transactions[j])
          /\ transactions[i] # transactions[j]
          => ~C7_Same(transactions[i], transactions[j])

(***************************************************************************)
(* C19  the category of a description                                      *)
(***************************************************************************)
\* the categories, by their place in CATEGORY_KEYWORDS, that have a keyword
\* occurring in the text
C19_Hits(text) ==
    {i \in 1..Len(CATEGORY_KEYWORDS) :
        \E k \in 1..Len(CATEGORY_KEYWORDS[i].keywords) :
           Contains(text, CATEGORY_KEYWORDS[i].keywords[k])}
C19_FirstOf(hits) ==
    IF hits = {} THEN "Other" ELSE CATEGORY_KEYWORDS[Least(hits)].category
\* C19: categorize_transaction returns the first category, in the order of
\* CATEGORY_KEYWORDS, that has a keyword occurring in the lower-cased
\* description, and 'Other' when no keyword occurs or the description is empty
\* or missing; a keyword of two categories gives the earlier one.
C19_FirstCategoryWins ==
    pc = "parsed" /\ input.kind \in {"description", "missing"} =>
       output = << IF input.kind = "missing" \/ input.text = <<>> THEN "Other"
                   ELSE C19_FirstOf(C19_Hits(Lower(input.text))) >>
\* C19 witness: a description with the keyword 'phone' of Shopping and of
\* Bills & Utilities has been given the category Shopping
C19_KeywordOfTwoCategories ==
    /\ pc = "parsed"
    /\ input.text = <<"P","h","o","n","e"," ","R","a","v","i">>
    /\ C19_Hits(Lower(input.text)) = {3, 5}
    /\ CATEGORY_KEYWORDS[3].category = "Shopping"
    /\ CATEGORY_KEYWORDS[5].category = "Bills & Utilities"
    /\ output = <<"Shopping">>

(***************************************************************************)
(* C21  the accepted records a text candidate is dropped for               *)
(***************************************************************************)
\* the accepted records the dropped candidate d matches
C21_Matches(d) == {i \in 1..Len(transactions) : C7_Same(transactions[i], dropped[d])}
\* C21: a text-path candidate is dropped only as a duplicate of an earlier
\* table-path record; one that matches only earlier text-path candidates in
\* date, amount and first 20 description characters, and differs from each
\* in some field, is kept and returned.
C21_DroppedOnlyForTableRecord ==
    \A d \in 1..Len(dropped) :
       \/ \E i \in C21_Matches(d) : origin[i].path = "table"
       \/ \E i \in C21_Matches(d) : transactions[i] = dropped[d]
\* C21 as amended: a text-path candidate is dropped exactly for an accepted
\* record, of the table path or of the text path, with the same date, an
\* amount less than 0.01 away and the same first 20 description characters.
C21_DroppedForAnyRecord ==
    \A d \in 1..Len(dropped) :
       /\ C21_Matches(d) # {}
       /\ pc = "returned" =>
             \E k \in 1..Len(returned) : C7_Same(returned[k], dropped[d])
\* C21 witness: a collection has been returned from which a text candidate is
\* missing that matched text-path records only, and none of them in the
\* whole description
C21_DroppedForTextRecord ==
    /\ pc = "returned"
    /\ \E d \in 1..Len(dropped) :
          /\ C21_Matches(d) # {}
          /\ \A i \in C21_Matches(d) :
                /\ origin[i].path = "text"
                /\ transactions[i].description # dropped[d].description
          /\ \A k \in 1..Len(returned) : returned[k] # dropped[d]

(***************************************************************************)
(* C22  the date of a row                                                  *)
(***************************************************************************)
\* the text of the date cell of the row given
C22_DateToken == input.text[IF input.order = 1 THEN 1 ELSE 3]
C22_Supported ==
    /\ RowParsed
    /\ SpelledIsDate(input.parts[1]) /\ SpelledInYears(input.parts[1])
    /\ _parse_date(C22_DateToken, Now(1)) = SpelledDate(input.parts[1])
\* C22: for a row whose date cell holds a date token in a supported format the
\* record's date is the date _parse_date returns for the whole token; the ISO
\* token YYYY-MM-DD with YYYY in 2020..2030 ("2024-12-25") gives year YYYY,
\* month MM, day DD; a later cell does not change the date.
C22_RowDateIsTheTokensDate ==
    C22_Supported /\ Len(output) = 1 =>
       output[1].date = _parse_date(C22_DateToken, Now(1))

(***************************************************************************)
(* C23  the description of a row                                           *)
(***************************************************************************)
\* the payee cell of the row given is a cell for the description: no
\* direction keyword was taken from it, it holds no header vocabulary and is
\* longer than 3 characters
C23_PayeeDescribes ==
    /\ input.parts[1].type = "None"
    /\ ~AnyIn(row_headers, Lower(input.parts[1].payee))
    /\ Len(input.parts[1].payee) > 3
\* C23: the description of the record of a row holds every cell other than
\* those the date, the amount and the direction keyword were taken from that
\* has no header vocabulary and more than 3 characters, free text with digits
\* ("Flat 12 rent") included: one such cell as it is, several joined with a
\* space, and 'Unknown Transaction' with none, the row being kept.
C23_DescriptionOfOtherCells ==
    RowParsed /\ Len(output) = 1 =>
       output[1].description = IF C23_PayeeDescribes THEN input.parts[1].payee
                               ELSE <<"U","n","k","n","o","w","n"," ","T","r","a","n","s","a","c","t","i","o","n">>

(***************************************************************************)
(* C24  the fields of the accepted and of the returned records             *)
(***************************************************************************)
\* the record has the four fields, a year within 2020..2030, an amount of a
\* magnitude within 0.01..10,000,000, a type and a description
C24_Complete(tx) ==
    /\ DOMAIN tx = {"date", "description", "amount", "type"}
    /\ tx.date.year >= MinYear /\ tx.date.year <= MaxYear
    /\ tx.amount # 0
    /\ Abs(tx.amount) >= MinAmount /\ Abs(tx.amount) <= MaxAmount
    /\ tx.type \in {"Debit", "Credit"}
    /\ Len(tx.description) > 0
\* C24: every candidate accepted in the page loop and every record of a
\* returned collection has a date of a year within 2020..2030, an amount of a
\* magnitude within 0.01..10,000,000, the type 'Debit' or 'Credit' and a
\* description that is not empty; the returned frame has the four columns, so
\* that _clean_dataframe defaults none, and no amount returned is 0.
C24_RecordsAreComplete ==
    /\ \A i \in 1..Len(transactions) : C24_Complete(transactions[i])
    /\ \A i \in 1..Len(text_transactions) : C24_Complete(text_transactions[i])
    /\ \A k \in 1..Len(returned) : C24_Complete(returned[k])
    /\ pc = "returned" /\ Len(returned) > 0 =>
          columns = {"date", "description", "amount", "type"}
\* C24 witness: a collection has been returned that holds a table-path record,
\* a text-path record and a record dated by the clock
C24_ReturnedFromBothPaths ==
    /\ pc = "returned"
    /\ \E i, j \in 1..Len(transactions) :
          /\ origin[i].path = "table" /\ origin[j].path = "text"
          /\ \E k \in 1..Len(returned) : returned[k] = transactions[i]
          /\ \E k \in 1..Len(returned) : returned[k] = transactions[j]
    /\ \E k \in 1..Len(returned) : returned[k].date.tick > 0
====
